---- MODULE Spec2Model ----
(***************************************************************************)
(* Model of the annotation export pipeline of zotero-export-notes:         *)
(* the Exporter orchestrator (src/src/modules/exporter.ts), the two        *)
(* annotation formatters, the two metadata formatters and the link         *)
(* builders.                                                               *)
(*                                                                         *)
(* Text.  A JavaScript string is modelled as a sequence of symbols.  A     *)
(* symbol is a TLA+ string: a literal chunk of a template in the source    *)
(* ("#+begin_quote\n") is one symbol, user data (titles, page labels,      *)
(* comments, tags) is a sequence of one-character symbols.  String         *)
(* concatenation is \o, so the content an export returns is the flat       *)
(* sequence of everything the code appended, in order.                     *)
(***************************************************************************)
EXTENDS Integers, Sequences, FiniteSets, TLC

VARIABLES
    annots,   \* host: attachment id -> the annotation array the attachment holds
    shared,   \* host: getAnnotations() hands out the held array itself (TRUE) or a copy
    meta,     \* host: item id -> what each bibliographic accessor of the item does
    request,  \* the call the caller makes: its arguments, and the fetch that rejects
    last,     \* the outcome of the latest call
    calls     \* how many times the caller has made the call

vars == <<annots, shared, meta, request, last, calls>>

(***************************************************************************)
(* Bounds of the model.                                                    *)
(***************************************************************************)
MaxAnnots == 3      \* longest annotation list drawn for the main PDF attachment
MaxBatch == 3       \* longest item list handed to generateBatchContent
MaxCalls == 2       \* how often the caller repeats its call

(***************************************************************************)
(* JavaScript values.                                                      *)
(***************************************************************************)
\* The value `undefined` of an optional string field.
Undefined == <<"<undefined>">>

\* JavaScript truthiness of a string-or-undefined value.
Truthy(s) == s # Undefined /\ s # <<>>

\* `a || b` on string-or-undefined values.
OrElse(a, b) == IF Truthy(a) THEN a ELSE b

\* String(v) as a template literal `${v}` renders it.
Interpolate(s) == IF s = Undefined THEN <<"undefined">> ELSE s

Whitespace == {" ", "\t", "\n"}

RECURSIVE TrimStart(_)
TrimStart(s) ==
    IF s # <<>> /\ Head(s) \in Whitespace THEN TrimStart(Tail(s)) ELSE s

RECURSIVE TrimEnd(_)
TrimEnd(s) ==
    IF s # <<>> /\ s[Len(s)] \in Whitespace
    THEN TrimEnd(SubSeq(s, 1, Len(s) - 1))
    ELSE s

\* String.prototype.trim
Trim(s) == TrimEnd(TrimStart(s))

Digits == <<"0", "1", "2", "3", "4", "5", "6", "7", "8", "9">>

IsDigit(c) == \E i \in 1..10 : Digits[i] = c

DigitVal(c) == (CHOOSE i \in 1..10 : Digits[i] = c) - 1

RECURSIVE DigitsPrefix(_, _, _)
\* Value of the longest run of decimal digits at the start of s; seen tells
\* whether at least one digit was read.
DigitsPrefix(s, acc, seen) ==
    IF s # <<>> /\ IsDigit(Head(s))
    THEN DigitsPrefix(Tail(s), acc * 10 + DigitVal(Head(s)), TRUE)
    ELSE [nan |-> ~seen, val |-> acc]

\* parseInt(s): leading whitespace is skipped, one sign is accepted, the
\* digits that follow are read and the rest is ignored; NaN when no digit is
\* read (undefined reads as the text "undefined").
parseInt(s) ==
    LET t == TrimStart(Interpolate(s))
        neg == t # <<>> /\ Head(t) = "-"
        signed == t # <<>> /\ Head(t) \in {"-", "+"}
        r == DigitsPrefix(IF signed THEN Tail(t) ELSE t, 0, FALSE)
    IN  [nan |-> r.nan, val |-> IF neg THEN 0 - r.val ELSE r.val]

\* `parseInt(s) || d`: NaN and 0 are both falsy.
parseIntOr(s, d) ==
    LET r == parseInt(s) IN IF r.nan \/ r.val = 0 THEN d ELSE r.val

\* Collation order of the characters sort indexes are drawn from (digits
\* before letters, letters in alphabetical order).
Collation == <<"0", "1", "2", "3", "a", "b", "c">>

CharRank(c) == CHOOSE i \in 1..Len(Collation) : Collation[i] = c

RECURSIVE localeCompare(_, _)
\* a.localeCompare(b): negative, zero or positive.
localeCompare(a, b) ==
    IF a = <<>> /\ b = <<>> THEN 0
    ELSE IF a = <<>> THEN -1
    ELSE IF b = <<>> THEN 1
    ELSE IF CharRank(Head(a)) < CharRank(Head(b)) THEN -1
    ELSE IF CharRank(Head(a)) > CharRank(Head(b)) THEN 1
    ELSE localeCompare(Tail(a), Tail(b))

(***************************************************************************)
(* Exporter.generateContent: the comparator and the in-place sort.         *)
(***************************************************************************)
\* A comparator that forgets the tie-break on the sort index.
SortComparePageOnly(a, b) ==
    parseIntOr(a.annotationPageLabel, 0) - parseIntOr(b.annotationPageLabel, 0)

\* The comparator handed to annotations.sort (exporter.ts 193-200).
SortCompare(a, b) ==
    LET pageA == parseIntOr(a.annotationPageLabel, 0)
        pageB == parseIntOr(b.annotationPageLabel, 0)
    IN  IF pageA # pageB
        THEN pageA - pageB
        ELSE localeCompare(OrElse(a.annotationSortIndex, <<>>),
                           OrElse(b.annotationSortIndex, <<>>))

RECURSIVE InsertSortedTiesFirst(_, _)
\* An unstable sort: x overtakes the elements that compare equal to it.
InsertSortedTiesFirst(sorted, x) ==
    IF sorted = <<>> THEN <<x>>
    ELSE IF SortCompare(Head(sorted), x) >= 0 THEN <<x>> \o sorted
    ELSE <<Head(sorted)>> \o InsertSortedTiesFirst(Tail(sorted), x)

RECURSIVE InsertSorted(_, _)
\* x goes before the first element that compares greater than x.
InsertSorted(sorted, x) ==
    IF sorted = <<>> THEN <<x>>
    ELSE IF SortCompare(Head(sorted), x) > 0 THEN <<x>> \o sorted
    ELSE <<Head(sorted)>> \o InsertSorted(Tail(sorted), x)

RECURSIVE SortFrom(_, _)
SortFrom(sorted, rest) ==
    IF rest = <<>> THEN sorted
    ELSE SortFrom(InsertSorted(sorted, Head(rest)), Tail(rest))

\* Array.prototype.sort with SortCompare: a stable sort.
SortAnnotations(list) == SortFrom(<<>>, list)

(***************************************************************************)
(* Text helpers shared by the formatters.                                  *)
(***************************************************************************)
RECURSIVE ReplaceWhitespaceRuns(_, _)
\* s.replace(/\s+/g, to): every maximal run of whitespace becomes `to`.
ReplaceWhitespaceRuns(s, to) ==
    IF s = <<>> THEN <<>>
    ELSE IF Head(s) \in Whitespace
         THEN to \o ReplaceWhitespaceRuns(TrimStart(s), to)
         ELSE <<Head(s)>> \o ReplaceWhitespaceRuns(Tail(s), to)

RECURSIVE ReplaceChar(_, _, _)
\* s.replace(/c/g, to) for a single character c.
ReplaceChar(s, c, to) ==
    IF s = <<>> THEN <<>>
    ELSE (IF Head(s) = c THEN to ELSE <<Head(s)>>) \o ReplaceChar(Tail(s), c, to)

RECURSIVE Join(_, _)
\* parts.join(sep)
Join(parts, sep) ==
    IF parts = <<>> THEN <<>>
    ELSE IF Len(parts) = 1 THEN Head(parts)
    ELSE Head(parts) \o sep \o Join(Tail(parts), sep)

\* String.prototype.includes
Includes(str, sub) ==
    \E i \in 0..(Len(str) - Len(sub)) : SubSeq(str, i + 1, i + Len(sub)) = sub

\* Number.prototype.toString of an integer.
Num(n) == <<ToString(n)>>

(***************************************************************************)
(* OrgPdfToolsLink (src/unnamed/part_002).  Coordinates of a rectangle are *)
(* held in units of 1/10000; a height is a number of hundredths of a       *)
(* percent, kept as the fraction num/den until toFixed(2) rounds it.       *)
(***************************************************************************)
PageHeight == 792

Scale == 100 * 100

\* JSON.parse(positionJson) guarded by try/catch: a position whose text is
\* not JSON becomes { pageIndex: 0 }.
parsePosition(positionJson) ==
    IF positionJson.json = "malformed"
    THEN [hasRects |-> FALSE, rects |-> <<>>]
    ELSE [hasRects |-> positionJson.hasRects, rects |-> positionJson.rects]

\* The height taken from the last rectangle instead of the first.
calculateHeightLastRect(position) ==
    IF position.hasRects /\ Len(position.rects) > 0
       /\ Len(position.rects[Len(position.rects)]) >= 4
    THEN LET y == position.rects[Len(position.rects)][2]
         IN  IF y <= Scale
             THEN [num |-> y, den |-> 1]
             ELSE IF y >= PageHeight * Scale
                  THEN [num |-> Scale, den |-> 1]
                  ELSE [num |-> y, den |-> PageHeight]
    ELSE [num |-> 0, den |-> 1]

calculateHeight(position) ==
    IF position.hasRects /\ Len(position.rects) > 0
       /\ Len(position.rects[1]) >= 4
    THEN LET y == position.rects[1][2]
         IN  IF y <= Scale
             THEN [num |-> y, den |-> 1]
             ELSE IF y >= PageHeight * Scale
                  THEN [num |-> Scale, den |-> 1]
                  ELSE [num |-> y, den |-> PageHeight]
    ELSE [num |-> 0, den |-> 1]

\* h.toFixed(2) of a height given in hundredths.
toFixed2(h) ==
    LET mag == IF h.num < 0 THEN 0 - h.num ELSE h.num
        c == (2 * mag + h.den) \div (2 * h.den)
        frac == c % 100
    IN  <<(IF h.num < 0 THEN "-" ELSE "") \o ToString(c \div 100) \o "."
          \o (IF frac < 10 THEN "0" ELSE "") \o ToString(frac)>>

\* OrgPdfToolsLink.generate
OrgPdfToolsLinkGenerate(pdfPath, annotation) ==
    LET page == parseIntOr(annotation.annotationPageLabel, 1)
        position == parsePosition(annotation.annotationPosition)
        height == calculateHeight(position)
        annotId == <<"annot-">> \o Num(page) \o <<"-">> \o annotation.key
        linkTarget == <<"pdf:">> \o pdfPath \o <<"::">> \o Num(page) \o <<"++">>
                      \o toFixed2(height) \o <<";;">> \o annotId
        description == <<"Page ">> \o Num(page)
    IN  <<"[[">> \o linkTarget \o <<"][">> \o description \o <<"]]:">>

(***************************************************************************)
(* AnnotationFormatter, the org-mode dialect (src/docs/comparison.md).     *)
(***************************************************************************)
OrgFormatTagsKeepColons(annot) ==
    IF annot.noTags \/ annot.tags = <<>> THEN <<>>
    ELSE <<":">>
         \o Join([i \in 1..Len(annot.tags) |->
                    ReplaceWhitespaceRuns(annot.tags[i], <<"_">>)],
                 <<":">>)
         \o <<":">>

\* AnnotationFormatter.formatTags
OrgFormatTags(annot) ==
    IF annot.noTags \/ annot.tags = <<>> THEN <<>>
    ELSE <<":">>
         \o Join([i \in 1..Len(annot.tags) |->
                    ReplaceChar(ReplaceWhitespaceRuns(annot.tags[i], <<"_">>),
                                ":", <<"-">>)],
                 <<":">>)
         \o <<":">>

OrgCommentAndTagsUntrimmedTest(annot) ==
    (IF Truthy(annot.annotationComment)
     THEN <<"\n">> \o Trim(annot.annotationComment) \o <<"\n">>
     ELSE <<>>)
    \o (IF OrgFormatTags(annot) # <<>> THEN OrgFormatTags(annot) \o <<"\n">> ELSE <<>>)

\* The part every org block shares: `comment && comment.trim()` paragraph,
\* then the tag line.
OrgCommentAndTags(annot) ==
    (IF Truthy(annot.annotationComment) /\ Trim(annot.annotationComment) # <<>>
     THEN <<"\n">> \o Trim(annot.annotationComment) \o <<"\n">>
     ELSE <<>>)
    \o (IF OrgFormatTags(annot) # <<>> THEN OrgFormatTags(annot) \o <<"\n">> ELSE <<>>)

OrgFormatHighlight(annot, pdfPath) ==
    OrgPdfToolsLinkGenerate(pdfPath, annot) \o <<"\n">>
    \o <<"#+begin_quote\n">>
    \o Trim(OrElse(annot.annotationText, <<>>)) \o <<"\n">>
    \o <<"#+end_quote\n">>
    \o OrgCommentAndTags(annot)

OrgFormatNote(annot, pdfPath) ==
    OrgPdfToolsLinkGenerate(pdfPath, annot) \o <<"\n">>
    \o <<"#+begin_comment\n">>
    \o Trim(OrElse(annot.annotationComment, <<>>)) \o <<"\n">>
    \o <<"#+end_comment\n">>
    \o (IF OrgFormatTags(annot) # <<>> THEN OrgFormatTags(annot) \o <<"\n">> ELSE <<>>)

OrgFormatImage(annot, pdfPath) ==
    OrgPdfToolsLinkGenerate(pdfPath, annot) \o <<"\n">>
    \o <<"#+begin_example\n">>
    \o <<"[Image annotation on page ">> \o Interpolate(annot.annotationPageLabel)
    \o <<"]\n">>
    \o <<"#+end_example\n">>
    \o OrgCommentAndTags(annot)

OrgFormatInk(annot, pdfPath) ==
    OrgPdfToolsLinkGenerate(pdfPath, annot) \o <<"\n">>
    \o <<"#+begin_example\n">>
    \o <<"[Ink/drawing annotation on page ">> \o Interpolate(annot.annotationPageLabel)
    \o <<"]\n">>
    \o <<"#+end_example\n">>
    \o OrgCommentAndTags(annot)

OrgFormatGeneric(annot, pdfPath) ==
    OrgPdfToolsLinkGenerate(pdfPath, annot) \o <<"\n">>
    \o Trim(OrElse(annot.annotationText, OrElse(annot.annotationComment, <<>>)))
    \o <<"\n">>

\* AnnotationFormatter.format(annotation, pdfPath)
AnnotationFormatterFormat(annotation, pdfPath) ==
    CASE annotation.annotationType \in {"highlight", "underline"} ->
            OrgFormatHighlight(annotation, pdfPath)
      [] annotation.annotationType = "note" -> OrgFormatNote(annotation, pdfPath)
      [] annotation.annotationType = "image" -> OrgFormatImage(annotation, pdfPath)
      [] annotation.annotationType = "ink" -> OrgFormatInk(annotation, pdfPath)
      [] OTHER -> OrgFormatGeneric(annotation, pdfPath)

(***************************************************************************)
(* MarkdownFormatter (src/src/modules/markdownFormatter.ts).               *)
(***************************************************************************)
PdfContentType == <<"application/pdf">>

EpubContentType == <<"application/epub+zip">>

generateZoteroLinkAlwaysLibrary(attachmentKey, libraryID, annotation, contentType) ==
    LET annotKey == annotation.key
        libraryPath == <<"library">>
    IN  IF contentType = EpubContentType
        THEN LET location == OrElse(annotation.annotationPageLabel, <<"Location">>)
             IN  <<"[">> \o location \o <<"](">>
                 \o <<"zotero://open-epub/">> \o libraryPath \o <<"/items/">>
                 \o attachmentKey \o <<"?annotation=">> \o annotKey \o <<")">>
        ELSE LET page == parseIntOr(annotation.annotationPageLabel, 1)
             IN  <<"[Page ">> \o Num(page) \o <<"](">>
                 \o <<"zotero://open-pdf/">> \o libraryPath \o <<"/items/">>
                 \o attachmentKey \o <<"?page=">> \o Num(page)
                 \o <<"&annotation=">> \o annotKey \o <<")">>

generateZoteroLink(attachmentKey, libraryID, annotation, contentType) ==
    LET annotKey == annotation.key
        libraryPath == IF libraryID = 1 THEN <<"library">>
                       ELSE <<"groups/">> \o Num(libraryID)
    IN  IF contentType = EpubContentType
        THEN LET location == OrElse(annotation.annotationPageLabel, <<"Location">>)
             IN  <<"[">> \o location \o <<"](">>
                 \o <<"zotero://open-epub/">> \o libraryPath \o <<"/items/">>
                 \o attachmentKey \o <<"?annotation=">> \o annotKey \o <<")">>
        ELSE LET page == parseIntOr(annotation.annotationPageLabel, 1)
             IN  <<"[Page ">> \o Num(page) \o <<"](">>
                 \o <<"zotero://open-pdf/">> \o libraryPath \o <<"/items/">>
                 \o attachmentKey \o <<"?page=">> \o Num(page)
                 \o <<"&annotation=">> \o annotKey \o <<")">>

\* MarkdownFormatter.formatTags
MdFormatTags(annot) ==
    IF annot.noTags \/ annot.tags = <<>> THEN <<>>
    ELSE Join([i \in 1..Len(annot.tags) |->
                 <<"#">> \o ReplaceChar(ReplaceWhitespaceRuns(annot.tags[i], <<"_">>),
                                        "#", <<>>)],
              <<" ">>)

\* text.split("\n").map((line) => "> " + line).join("\n")
QuoteLines(text) == <<"> ">> \o ReplaceChar(text, "\n", <<"\n", "> ">>)

MdCommentAndTags(annot) ==
    (IF Truthy(annot.annotationComment) /\ Trim(annot.annotationComment) # <<>>
     THEN <<"\n">> \o Trim(annot.annotationComment) \o <<"\n">>
     ELSE <<>>)
    \o (IF MdFormatTags(annot) # <<>>
        THEN <<"\n">> \o MdFormatTags(annot) \o <<"\n">> ELSE <<>>)

MdFormatHighlight(annot, attachmentKey, libraryID, contentType) ==
    generateZoteroLink(attachmentKey, libraryID, annot, contentType) \o <<"\n\n">>
    \o QuoteLines(Trim(OrElse(annot.annotationText, <<>>))) \o <<"\n">>
    \o MdCommentAndTags(annot)

MdFormatNote(annot, attachmentKey, libraryID, contentType) ==
    generateZoteroLink(attachmentKey, libraryID, annot, contentType) \o <<"\n\n">>
    \o Trim(OrElse(annot.annotationComment, <<>>)) \o <<"\n">>
    \o (IF MdFormatTags(annot) # <<>>
        THEN <<"\n">> \o MdFormatTags(annot) \o <<"\n">> ELSE <<>>)

MdFormatImage(annot, attachmentKey, libraryID, contentType) ==
    generateZoteroLink(attachmentKey, libraryID, annot, contentType) \o <<"\n\n">>
    \o <<"*[Image annotation at ">> \o Interpolate(annot.annotationPageLabel)
    \o <<"]*\n">>
    \o MdCommentAndTags(annot)

MdFormatInk(annot, attachmentKey, libraryID, contentType) ==
    generateZoteroLink(attachmentKey, libraryID, annot, contentType) \o <<"\n\n">>
    \o <<"*[Ink/drawing annotation at ">> \o Interpolate(annot.annotationPageLabel)
    \o <<"]*\n">>
    \o MdCommentAndTags(annot)

MdFormatGeneric(annot, attachmentKey, libraryID, contentType) ==
    generateZoteroLink(attachmentKey, libraryID, annot, contentType) \o <<"\n\n">>
    \o Trim(OrElse(annot.annotationText, OrElse(annot.annotationComment, <<>>)))
    \o <<"\n">>

\* MarkdownFormatter.format
MarkdownFormatterFormat(annotation, attachmentKey, libraryID, contentType) ==
    CASE annotation.annotationType \in {"highlight", "underline"} ->
            MdFormatHighlight(annotation, attachmentKey, libraryID, contentType)
      [] annotation.annotationType = "note" ->
            MdFormatNote(annotation, attachmentKey, libraryID, contentType)
      [] annotation.annotationType = "image" ->
            MdFormatImage(annotation, attachmentKey, libraryID, contentType)
      [] annotation.annotationType = "ink" ->
            MdFormatInk(annotation, attachmentKey, libraryID, contentType)
      [] OTHER -> MdFormatGeneric(annotation, attachmentKey, libraryID, contentType)

(***************************************************************************)
(* Bibliographic metadata.  An item's metadata record m tells, for each    *)
(* accessor the formatters use, whether the call throws and what it        *)
(* returns: m.title, m.date, m.DOI, m.url, m.abstractNote,                 *)
(* m.publicationTitle and m.extra are [throws, value] with value a string, *)
(* m.creators is [throws, value] with value a list of creators, m.key is   *)
(* the item key (a plain property, which cannot throw).                    *)
(***************************************************************************)
\* creators.filter(author).map(Last, First | name).filter(nonempty).join("; ")
AuthorNames(creators) ==
    LET authors == SelectSeq(creators, LAMBDA c : c.creatorType = "author")
        names == [i \in 1..Len(authors) |->
                    IF Truthy(authors[i].lastName)
                    THEN authors[i].lastName \o <<", ">>
                         \o OrElse(authors[i].firstName, <<>>)
                    ELSE OrElse(authors[i].name, <<>>)]
    IN  Join(SelectSeq(names, LAMBDA n : n # <<>>), <<"; ">>)

CitationKeyWord == <<"c", "i", "t", "a", "t", "i", "o", "n", " ", "k", "e", "y", ":">>

UpperLetters == <<"C", "I", "T", "A", "O", "N", "K", "E", "Y">>

LowerLetters == <<"c", "i", "t", "a", "o", "n", "k", "e", "y">>

\* Case folding of the /i flag, for the letters of the pattern.
Lower(c) ==
    IF \E i \in 1..Len(UpperLetters) : UpperLetters[i] = c
    THEN LowerLetters[CHOOSE i \in 1..Len(UpperLetters) : UpperLetters[i] = c]
    ELSE c

RECURSIVE UpToNewline(_)
\* What (.+) takes: `.` matches every character but a line break.
UpToNewline(s) ==
    IF s = <<>> \/ Head(s) = "\n" THEN <<>>
    ELSE <<Head(s)>> \o UpToNewline(Tail(s))

\* Number of whitespace characters at the start of s.
LeadingWhitespace(s) == Len(s) - Len(TrimStart(s))

\* The capture (.+) takes when the pattern's literal part ends just before
\* `rest`: \s* is greedy and gives back whitespace while (.+) would find no
\* character to take.  <<>> when the pattern does not match here.
RECURSIVE CaptureAfter(_, _)
CaptureAfter(rest, skip) ==
    IF UpToNewline(SubSeq(rest, skip + 1, Len(rest))) # <<>>
    THEN UpToNewline(SubSeq(rest, skip + 1, Len(rest)))
    ELSE IF skip = 0 THEN <<>>
    ELSE CaptureAfter(rest, skip - 1)

\* The literal part of the pattern matches at position i of extra.
KeywordAt(extra, i) ==
    /\ i + Len(CitationKeyWord) - 1 <= Len(extra)
    /\ \A k \in 1..Len(CitationKeyWord) : Lower(extra[i + k - 1]) = CitationKeyWord[k]

RECURSIVE CitekeyMatchFrom(_, _)
CitekeyMatchFrom(extra, i) ==
    IF i > Len(extra) THEN Undefined
    ELSE IF KeywordAt(extra, i)
            /\ CaptureAfter(SubSeq(extra, i + Len(CitationKeyWord), Len(extra)),
                   LeadingWhitespace(SubSeq(extra, i + Len(CitationKeyWord), Len(extra))))
               # <<>>
    THEN CaptureAfter(SubSeq(extra, i + Len(CitationKeyWord), Len(extra)),
             LeadingWhitespace(SubSeq(extra, i + Len(CitationKeyWord), Len(extra))))
    ELSE CitekeyMatchFrom(extra, i + 1)

\* extra.match(/Citation Key:\s*(.+)/i): the capture group of the first
\* match, Undefined when nothing matches.
CitekeyMatch(extra) == CitekeyMatchFrom(extra, 1)

\* citekeyMatch[1].trim() when the pattern matched.
TrimmedCapture(capture) == IF capture = Undefined THEN Undefined ELSE Trim(capture)

\* The reads of extractFields in the order the single try block makes them.
ReadOrder ==
    <<"title", "date", "DOI", "url", "abstractNote", "publicationTitle",
      "key", "creators", "extra">>

Throws(m, name) == IF name = "key" THEN FALSE ELSE m[name].throws

RECURSIVE FirstThrowFrom(_, _, _)
FirstThrowFrom(m, order, i) ==
    IF i > Len(order) \/ Throws(m, order[i]) THEN i
    ELSE FirstThrowFrom(m, order, i + 1)

\* Position in order of the first read that throws (one past the end when
\* none does): the catch block is entered there and nothing after it is read.
FirstThrow(m, order) == FirstThrowFrom(m, order, 1)

\* Position of a read in the order of reads.
ReadAt(order, name) == CHOOSE i \in 1..Len(order) : order[i] = name

\* The fields record when the reads before position stop were made.
FieldsUpTo(m, order, stop) ==
    [title |-> IF ReadAt(order, "title") < stop THEN m.title.value ELSE Undefined,
     date |-> IF ReadAt(order, "date") < stop THEN m.date.value ELSE Undefined,
     doi |-> IF ReadAt(order, "DOI") < stop THEN m.DOI.value ELSE Undefined,
     url |-> IF ReadAt(order, "url") < stop THEN m.url.value ELSE Undefined,
     abstract |-> IF ReadAt(order, "abstractNote") < stop
                  THEN m.abstractNote.value ELSE Undefined,
     publication |-> IF ReadAt(order, "publicationTitle") < stop
                     THEN m.publicationTitle.value ELSE Undefined,
     zoteroKey |-> IF ReadAt(order, "key") < stop THEN m.key ELSE Undefined,
     authors |-> IF ReadAt(order, "creators") < stop /\ Len(m.creators.value) > 0
                 THEN AuthorNames(m.creators.value)
                 ELSE Undefined,
     citekey |-> IF ReadAt(order, "extra") < stop /\ Truthy(m.extra.value)
                 THEN TrimmedCapture(CitekeyMatch(m.extra.value))
                 ELSE Undefined]

\* The fields record of extractFields for the given order of reads.
FieldsRead(m, order) == FieldsUpTo(m, order, FirstThrow(m, order))

(***************************************************************************)
(* MetadataFormatter, the org-mode dialect (src/unnamed/part_002).         *)
(***************************************************************************)
\* MetadataFormatter.extractFields
OrgExtractFields(m) == FieldsRead(m, ReadOrder)

OrgProperty(name, value) ==
    IF Truthy(value) THEN <<name>> \o value \o <<"\n">> ELSE <<>>

\* The heading without the fallback for a missing title.
OrgTitleHeadingNoFallback(fields) == <<"* ">> \o Interpolate(fields.title) \o <<"\n">>

\* The heading line of MetadataFormatter.format.
OrgTitleHeading(fields) == <<"* ">> \o OrElse(fields.title, <<"Untitled">>) \o <<"\n">>

\* MetadataFormatter.format, from the extracted fields on.
OrgRender(fields) ==
    OrgTitleHeading(fields)
    \o <<":PROPERTIES:\n">>
    \o OrgProperty(":AUTHOR: ", fields.authors)
    \o OrgProperty(":DATE: ", fields.date)
    \o OrgProperty(":PUBLICATION: ", fields.publication)
    \o OrgProperty(":DOI: ", fields.doi)
    \o OrgProperty(":URL: ", fields.url)
    \o OrgProperty(":ZOTERO_KEY: ", fields.zoteroKey)
    \o OrgProperty(":CUSTOM_ID: ", fields.citekey)
    \o <<":END:\n\n">>
    \o (IF Truthy(fields.abstract)
        THEN <<"** Abstract\n">> \o fields.abstract \o <<"\n\n">>
        ELSE <<>>)
    \o <<"** Annotations\n\n">>

\* MetadataFormatter.format
MetadataFormatterFormat(m) == OrgRender(OrgExtractFields(m))

(***************************************************************************)
(* MarkdownMetadataFormatter (src/unnamed/part_001).                       *)
(***************************************************************************)
\* The markdown dialect reading the extra field before everything else.
MdExtractFieldsExtraFirst(m) ==
    FieldsRead(m, <<"extra", "title", "date", "DOI", "url", "abstractNote",
                    "publicationTitle", "key", "creators">>)

\* MarkdownMetadataFormatter.extractFields
MdExtractFields(m) == FieldsRead(m, ReadOrder)

\* str.replace(/\\/g, "\\\\").replace(/"/g, '\\"')
escapeYaml(str) ==
    ReplaceChar(ReplaceChar(str, "\\", <<"\\", "\\">>), "\"", <<"\\", "\"">>)

YamlEscaped(name, value) ==
    IF Truthy(value) THEN <<name, "\"">> \o escapeYaml(value) \o <<"\"\n">> ELSE <<>>

YamlRaw(name, value) ==
    IF Truthy(value) THEN <<name, "\"">> \o value \o <<"\"\n">> ELSE <<>>

\* The H1 line of MarkdownMetadataFormatter.format.
MdTitleHeading(fields) == <<"# ">> \o OrElse(fields.title, <<"Untitled">>) \o <<"\n\n">>

\* MarkdownMetadataFormatter.format, from the extracted fields on.
MdRender(fields) ==
    <<"---\n">>
    \o YamlEscaped("title: ", fields.title)
    \o YamlEscaped("author: ", fields.authors)
    \o YamlEscaped("date: ", fields.date)
    \o YamlEscaped("publication: ", fields.publication)
    \o YamlEscaped("doi: ", fields.doi)
    \o YamlEscaped("url: ", fields.url)
    \o YamlRaw("zotero_key: ", fields.zoteroKey)
    \o YamlRaw("citekey: ", fields.citekey)
    \o <<"---\n\n">>
    \o MdTitleHeading(fields)
    \o (IF Truthy(fields.abstract)
        THEN <<"## Abstract\n\n">> \o fields.abstract \o <<"\n\n">>
        ELSE <<>>)
    \o <<"## Annotations\n\n">>

\* MarkdownMetadataFormatter.format
MarkdownMetadataFormatterFormat(m) == MdRender(MdExtractFields(m))

(***************************************************************************)
(* The host library the exports run against.  Item 1 is a regular item     *)
(* with a PDF (3), an EPUB (4), an HTML snapshot (5), a child note (9) and *)
(* one attachment id (10) the host no longer resolves; item 2 is a regular *)
(* item whose only attachment is an HTML snapshot (6); item 7 is a regular *)
(* item without attachments; item 8 is a PDF without a parent, in a group  *)
(* library.                                                                *)
(***************************************************************************)
HtmlContentType == <<"text/html">>

NoItem == 0

Library ==
    [i \in 1..9 |->
        CASE i = 1 -> [itemType |-> "regular", contentType |-> <<>>, parentItemID |-> NoItem,
                       attachmentIDs |-> <<3, 4, 5, 10>>, key |-> <<"ITEM1">>, libraryID |-> 1]
          [] i = 2 -> [itemType |-> "regular", contentType |-> <<>>, parentItemID |-> NoItem,
                       attachmentIDs |-> <<6>>, key |-> <<"ITEM2">>, libraryID |-> 1]
          [] i = 3 -> [itemType |-> "attachment", contentType |-> PdfContentType,
                       parentItemID |-> 1, attachmentIDs |-> <<>>, key |-> <<"ATT3">>,
                       libraryID |-> 1]
          [] i = 4 -> [itemType |-> "attachment", contentType |-> EpubContentType,
                       parentItemID |-> 1, attachmentIDs |-> <<>>, key |-> <<"ATT4">>,
                       libraryID |-> 1]
          [] i = 5 -> [itemType |-> "attachment", contentType |-> HtmlContentType,
                       parentItemID |-> 1, attachmentIDs |-> <<>>, key |-> <<"ATT5">>,
                       libraryID |-> 1]
          [] i = 6 -> [itemType |-> "attachment", contentType |-> HtmlContentType,
                       parentItemID |-> 2, attachmentIDs |-> <<>>, key |-> <<"ATT6">>,
                       libraryID |-> 1]
          [] i = 7 -> [itemType |-> "regular", contentType |-> <<>>, parentItemID |-> NoItem,
                       attachmentIDs |-> <<>>, key |-> <<"ITEM7">>, libraryID |-> 2]
          [] i = 8 -> [itemType |-> "attachment", contentType |-> PdfContentType,
                       parentItemID |-> NoItem, attachmentIDs |-> <<>>, key |-> <<"ATT8">>,
                       libraryID |-> 2]
          [] OTHER -> [itemType |-> "note", contentType |-> <<>>, parentItemID |-> 1,
                       attachmentIDs |-> <<>>, key |-> <<"NOTE9">>, libraryID |-> 1]]

ItemIds == DOMAIN Library

RegularItems == {i \in ItemIds : Library[i].itemType = "regular"}

\* The attachments that hold annotations (file attachments the reader opens).
AnnotatedAttachments == {i \in ItemIds : Library[i].contentType \in {PdfContentType, EpubContentType}}

isRegularItem(item) == Library[item].itemType = "regular"

isPDFAttachment(item) ==
    Library[item].itemType = "attachment" /\ Library[item].contentType = PdfContentType

isEPUBAttachment(item) ==
    Library[item].itemType = "attachment" /\ Library[item].contentType = EpubContentType

(***************************************************************************)
(* Exporter (src/src/modules/exporter.ts).                                 *)
(***************************************************************************)
SUPPORTED_CONTENT_TYPES == {PdfContentType, EpubContentType}

Formats == {"org", "md"}

\* No fetch of the call rejects.
NoReject == 0

\* Lines 140-153: the eligible attachments, or the rejection of a fetch.
\* Zotero.Items.getAsync(id) rejects for id = rej and resolves to false for an
\* id the host does not know.
ResolveAttachments(item, rej) ==
    IF isPDFAttachment(item) \/ isEPUBAttachment(item)
    THEN [rejected |-> FALSE, list |-> <<item>>]
    ELSE IF isRegularItem(item)
    THEN LET ids == Library[item].attachmentIDs
         IN  [rejected |-> \E i \in 1..Len(ids) : ids[i] = rej,
              list |-> SelectSeq(ids, LAMBDA id :
                          /\ id \in ItemIds
                          /\ Library[id].contentType \in SUPPORTED_CONTENT_TYPES)]
    ELSE [rejected |-> FALSE, list |-> <<>>]

\* The metadata read from the input only: an attachment gets no header.
ResolveParentRegularOnly(item, rej) ==
    IF isRegularItem(item) THEN [rejected |-> FALSE, item |-> item]
    ELSE [rejected |-> FALSE, item |-> NoItem]

\* Lines 169-173 (and 263-267): the item the metadata is read from; NoItem
\* stands for null.
ResolveParent(item, rej) ==
    IF isRegularItem(item) THEN [rejected |-> FALSE, item |-> item]
    ELSE IF Library[item].parentItemID # NoItem
    THEN [rejected |-> Library[item].parentItemID = rej,
          item |-> IF Library[item].parentItemID \in ItemIds
                   THEN Library[item].parentItemID ELSE NoItem]
    ELSE [rejected |-> FALSE, item |-> NoItem]

\* Lines 175-180.
Header(mt, parentItem, format) ==
    IF parentItem = NoItem THEN <<>>
    ELSE IF format = "org" THEN MetadataFormatterFormat(mt[parentItem])
    ELSE MarkdownMetadataFormatterFormat(mt[parentItem])

\* Lines 207-214: one fragment and one newline per annotation.  The org
\* formatter takes (annotation, pdfPath): the attachment key is what the
\* call passes in that position.
RECURSIVE FormatAnnotations(_, _, _)
FormatAnnotations(annotations, attachment, format) ==
    IF annotations = <<>> THEN <<>>
    ELSE (IF format = "org"
          THEN AnnotationFormatterFormat(Head(annotations), Library[attachment].key)
          ELSE MarkdownFormatterFormat(Head(annotations), Library[attachment].key,
                                       Library[attachment].libraryID,
                                       Library[attachment].contentType))
         \o <<"\n">>
         \o FormatAnnotations(Tail(annotations), attachment, format)

\* The count overwritten instead of accumulated.
AddAnnotationCountOverwrite(totalAnnotations, length) == length

\* Line 190: totalAnnotations += annotations.length
AddAnnotationCount(totalAnnotations, length) == totalAnnotations + length

\* The test for an export without annotations left out.
NoAnnotationsFoundNever(totalAnnotations) == FALSE

\* Line 217: the test that turns an export without annotations into null.
NoAnnotationsFound(totalAnnotations) == totalAnnotations = 0

\* Lines 185-215: the loop over the attachments.  a is the host's annotation
\* arrays; annotations.sort sorts the array getAnnotations() returned, which
\* is the host's own array when live.
RECURSIVE ProcessAttachments(_, _, _, _, _, _)
\* Lines 190-214 for one attachment with annotations: sorted is the array
\* after annotations.sort.
ProcessAnnotated(attachments, a, live, format, content, totalAnnotations, sorted) ==
    ProcessAttachments(
        Tail(attachments),
        IF live THEN [a EXCEPT ![Head(attachments)] = sorted] ELSE a,
        live, format,
        content \o FormatAnnotations(sorted, Head(attachments), format),
        AddAnnotationCount(totalAnnotations, Len(sorted)))

\* The loop left at the first attachment without annotations.
ProcessAttachmentsStopAtEmpty(attachments, a, live, format, content, totalAnnotations) ==
    IF attachments = <<>> \/ Len(a[Head(attachments)]) = 0
    THEN [content |-> content, totalAnnotations |-> totalAnnotations, annots |-> a]
    ELSE ProcessAnnotated(attachments, a, live, format, content, totalAnnotations,
                          SortAnnotations(a[Head(attachments)]))

ProcessAttachments(attachments, a, live, format, content, totalAnnotations) ==
    IF attachments = <<>>
    THEN [content |-> content, totalAnnotations |-> totalAnnotations, annots |-> a]
    ELSE IF Len(a[Head(attachments)]) = 0
    THEN ProcessAttachments(Tail(attachments), a, live, format, content, totalAnnotations)
    ELSE ProcessAnnotated(attachments, a, live, format, content, totalAnnotations,
                          SortAnnotations(a[Head(attachments)]))

NullResult == [kind |-> "null", content |-> <<>>, annotationCount |-> 0]

RejectedResult == [kind |-> "rejected", content |-> <<>>, annotationCount |-> 0]

\* Exporter.generateContent(item, format): the value the promise settles to
\* and the host's annotation arrays afterwards.
\* The returns and the rejections of generateContent, in the order the code
\* reaches them: done is the outcome of the loop over the attachments.
Settle(a, attachments, parentItem, done) ==
    IF attachments.rejected THEN [result |-> RejectedResult, annots |-> a]
    ELSE IF Len(attachments.list) = 0 THEN [result |-> NullResult, annots |-> a]
    ELSE IF parentItem.rejected THEN [result |-> RejectedResult, annots |-> a]
    ELSE IF NoAnnotationsFound(done.totalAnnotations)
         THEN [result |-> NullResult, annots |-> done.annots]
    ELSE [result |-> [kind |-> "ok", content |-> done.content,
                      annotationCount |-> done.totalAnnotations],
          annots |-> done.annots]

\* Lines 165-231 once the attachments and the parent item are resolved.
GenerateFrom(a, live, mt, format, attachments, parentItem) ==
    Settle(a, attachments, parentItem,
           ProcessAttachments(attachments.list, a, live, format,
                              Header(mt, parentItem.item, format), 0))

generateContent(a, live, mt, item, format, rej) ==
    GenerateFrom(a, live, mt, format, ResolveAttachments(item, rej),
                 ResolveParent(item, rej))

\* Lines 260-271: the title of a batch record; a throwing accessor leaves "".
TitleOf(mt, parentItem) ==
    IF parentItem.rejected \/ parentItem.item = NoItem THEN <<>>
    ELSE IF mt[parentItem.item].title.throws THEN <<>>
    ELSE mt[parentItem.item].title.value

BatchTitle(mt, item, rej) == TitleOf(mt, ResolveParent(item, rej))

\* The citekey looked up one position too far.
CitekeyAtNext(citekeys, i) ==
    IF citekeys.given /\ i + 1 <= Len(citekeys.keys) THEN citekeys.keys[i + 1] ELSE Undefined

\* citekeys?.[i] for the 1-based position i.
CitekeyAt(citekeys, i) ==
    IF citekeys.given /\ i <= Len(citekeys.keys) THEN citekeys.keys[i] ELSE Undefined

\* Line 283: the separator is appended after an emitted block unless the
\* block belongs to the last position of the input.
SeparatorAfter(i, n) == IF i < n THEN <<"\n">> ELSE <<>>

\* The batch total counting items instead of annotations.
AddBatchTotalOne(totalAnnotations, annotationCount) == totalAnnotations + 1

\* Line 280: totalAnnotations += result.annotationCount
AddBatchTotal(totalAnnotations, annotationCount) == totalAnnotations + annotationCount

\* Lines 255-287: the loop of generateBatchContent from position i on.
RECURSIVE BatchLoop(_, _, _, _, _, _, _, _)
\* Lines 273-285: the record, the content and the total after an item that
\* gave result.
Emit(acc, title, citekey, result, separator) ==
    [acc EXCEPT
       !.itemResults = Append(@, [title |-> title, citekey |-> citekey,
                                  annotationCount |-> result.annotationCount]),
       !.allContent = @ \o result.content \o separator,
       !.totalAnnotations = AddBatchTotal(@, result.annotationCount)]

\* Lines 259-286: the rest of the loop once generateContent has settled to r
\* for the item at position i.
BatchAfter(i, items, live, mt, format, citekeys, acc, r) ==
    IF r.result.kind = "rejected"
    THEN [acc EXCEPT !.rejected = TRUE, !.annots = r.annots]
    ELSE IF r.result.kind = "ok" /\ r.result.annotationCount > 0
    THEN BatchLoop(i + 1, items, r.annots, live, mt, format, citekeys,
                   Emit(acc, BatchTitle(mt, items[i], acc.rej), CitekeyAt(citekeys, i),
                        r.result, SeparatorAfter(i, Len(items))))
    ELSE BatchLoop(i + 1, items, r.annots, live, mt, format, citekeys, acc)

BatchLoop(i, items, a, live, mt, format, citekeys, acc) ==
    IF i > Len(items) THEN [acc EXCEPT !.annots = a]
    ELSE BatchAfter(i, items, live, mt, format, citekeys, acc,
                    generateContent(a, live, mt, items[i], format, acc.rej))

\* Exporter.generateBatchContent(items, format, citekeys)
\* Lines 289-298: what the batch settles to after the loop.
BatchSettle(done) ==
    [annots |-> done.annots,
     result |->
        IF done.rejected
        THEN [kind |-> "rejected", content |-> <<>>, totalAnnotations |-> 0,
              itemCount |-> 0, items |-> <<>>]
        ELSE IF Len(done.itemResults) = 0
        THEN [kind |-> "null", content |-> <<>>, totalAnnotations |-> 0,
              itemCount |-> 0, items |-> <<>>]
        ELSE [kind |-> "ok", content |-> done.allContent,
              totalAnnotations |-> done.totalAnnotations,
              itemCount |-> Len(done.itemResults),
              items |-> done.itemResults]]

generateBatchContent(a, live, mt, items, format, citekeys, rej) ==
    BatchSettle(BatchLoop(1, items, a, live, mt, format, citekeys,
                    [itemResults |-> <<>>, allContent |-> <<>>, totalAnnotations |-> 0,
                     rejected |-> FALSE, rej |-> rej, annots |-> a]))

\* Exporter.exportItems(items, format): exportItem on each item in turn.
\* written lists the files put on disk; cancel is the position of the item
\* whose save dialog the user dismisses (0: none).
RECURSIVE ExportItemsLoop(_, _, _, _, _, _, _, _, _)
\* exportItem (lines 100-129) once generateContent has settled to r for the
\* item at position i, and the loop of exportItems after it.
ExportItemSettle(i, items, live, mt, format, rej, cancel, written, r) ==
    IF r.result.kind = "rejected"
    THEN [rejected |-> TRUE, written |-> written, annots |-> r.annots]
    ELSE IF r.result.kind = "null" \/ r.result.annotationCount = 0
    THEN ExportItemsLoop(i + 1, items, r.annots, live, mt, format, rej, cancel, written)
    ELSE IF ResolveParent(items[i], rej).rejected
    THEN [rejected |-> TRUE, written |-> written, annots |-> r.annots]
    ELSE IF cancel = i
    THEN ExportItemsLoop(i + 1, items, r.annots, live, mt, format, rej, cancel, written)
    ELSE ExportItemsLoop(i + 1, items, r.annots, live, mt, format, rej, cancel,
                         Append(written, [position |-> i, content |-> r.result.content]))

\* The loop with every fetch answered: a rejection never reaches the caller.
ExportItemsLoopKeepGoing(i, items, a, live, mt, format, rej, cancel, written) ==
    IF i > Len(items) THEN [rejected |-> FALSE, written |-> written, annots |-> a]
    ELSE ExportItemSettle(i, items, live, mt, format, NoReject, cancel, written,
                          generateContent(a, live, mt, items[i], format, NoReject))

\* Lines 42-49: for (const item of items) await this.exportItem(item, format)
ExportItemsLoop(i, items, a, live, mt, format, rej, cancel, written) ==
    IF i > Len(items) THEN [rejected |-> FALSE, written |-> written, annots |-> a]
    ELSE ExportItemSettle(i, items, live, mt, format, rej, cancel, written,
                          generateContent(a, live, mt, items[i], format, rej))

exportItems(a, live, mt, items, format, rej, cancel) ==
    ExportItemsLoop(1, items, a, live, mt, format, rej, cancel, <<>>)

(***************************************************************************)
(* The HTTP API (src/src/modules/api.ts).  A response is the status and    *)
(* the JSON body handed to sendResponseCallback: fields is the set of the  *)
(* body's properties, the other components are their values.               *)
(***************************************************************************)
\* libraryID left out of a request body.
NoLibrary == 0

\* Zotero.Libraries.userLibraryID
userLibraryID == 1

EmptyBody ==
    [fields |-> {}, success |-> FALSE, error |-> "", citekey |-> <<>>, title |-> <<>>,
     annotationCount |-> 0, format |-> "", content |-> <<>>, items |-> <<>>,
     itemCount |-> 0, notFound |-> <<>>, tree |-> <<>>]

Response(status, body) == [status |-> status, body |-> body]

\* { success: false, error } with the given status.
Failure(status, error) ==
    Response(status, [EmptyBody EXCEPT !.fields = {"success", "error"}, !.error = error])

\* What Better BibTeX knows: the item key and library of each citation key.
BbtIndex(citekey) ==
    CASE citekey = <<"a", "b">> -> [itemKey |-> <<"ITEM1">>, libraryID |-> 1]
      [] citekey = <<"a", "b", "c">> -> [itemKey |-> <<"ITEM2">>, libraryID |-> 1]
      [] OTHER -> [itemKey |-> <<>>, libraryID |-> NoLibrary]

\* How the JSON-RPC call to Better BibTeX goes: it answers with itemKey, it
\* answers with the id URL only, the fetch rejects, the response is not OK,
\* the result is empty, the result has neither itemKey nor a usable id, or
\* the item it names cannot be fetched.
BbtModes == {"itemKey", "idUrl", "rejects", "notOk", "empty", "noItemKey", "unfetchable"}

\* Zotero.Items.getByLibraryAndKeyAsync(libraryID, key): NoItem for null.
getByLibraryAndKeyAsync(libraryID, key) ==
    IF \E i \in ItemIds : Library[i].key = key /\ Library[i].libraryID = libraryID
    THEN CHOOSE i \in ItemIds : Library[i].key = key /\ Library[i].libraryID = libraryID
    ELSE NoItem

\* Lines 955-1009: the item the Better BibTeX lookup returns, NoItem when it
\* falls through to the Extra-field search.
BbtLookup(citekey, libraryID, bbt) ==
    IF bbt \in {"rejects", "notOk", "empty", "noItemKey", "unfetchable"} THEN NoItem
    ELSE IF BbtIndex(citekey).itemKey = <<>> THEN NoItem
    ELSE getByLibraryAndKeyAsync(
            IF libraryID # NoLibrary THEN libraryID ELSE BbtIndex(citekey).libraryID,
            BbtIndex(citekey).itemKey)

\* s.search() with the conditions of lines 1015-1018: the ids of the items
\* whose extra field contains the citekey, in the library when one is given.
SearchExtra(mt, citekey, libraryID) ==
    SelectSeq([i \in 1..Cardinality(ItemIds) |-> i],
              LAMBDA i : /\ i \in RegularItems
                         /\ ~mt[i].extra.throws
                         /\ Includes(mt[i].extra.value, citekey)
                         /\ libraryID # NoLibrary => Library[i].libraryID = libraryID)

\* Lines 1027-1043 for one item of the search result.
ExtraMatches(mt, item, citekey) ==
    /\ isRegularItem(item)
    /\ ~mt[item].extra.throws
    /\ Truthy(mt[item].extra.value)
    /\ \/ TrimmedCapture(CitekeyMatch(mt[item].extra.value)) = citekey
       \/ Includes(mt[item].extra.value, citekey)

\* Lines 1012-1048: the first item of the search result that passes the
\* check; NoItem when the search throws or no item passes.
ExtraLookup(mt, citekey, libraryID, searchThrows) ==
    IF searchThrows THEN NoItem
    ELSE IF SelectSeq(SearchExtra(mt, citekey, libraryID),
                      LAMBDA i : ExtraMatches(mt, i, citekey)) = <<>>
    THEN NoItem
    ELSE Head(SelectSeq(SearchExtra(mt, citekey, libraryID),
                        LAMBDA i : ExtraMatches(mt, i, citekey)))

\* findItemByCitekey(citekey, libraryID): NoItem for null.
findItemByCitekey(mt, citekey, libraryID, bbt, searchThrows) ==
    IF BbtLookup(citekey, libraryID, bbt) # NoItem
    THEN BbtLookup(citekey, libraryID, bbt)
    ELSE ExtraLookup(mt, citekey, libraryID, searchThrows)

\* An entry of a "keys" array that is not a string.
NonString == <<"<number>">>

\* Lines 1087-1101: what the citekey endpoint reads from the request data.
\* A body is [isObject, hasKey, key, keysIsArray, keys, libraryID, format].
ParsedCitekey(data) == IF data.isObject /\ data.hasKey THEN data.key ELSE Undefined

ParsedCitekeys(data) ==
    IF data.isObject /\ data.keysIsArray
    THEN SelectSeq(data.keys, LAMBDA k : k # NonString)
    ELSE <<>>

ParsedLibraryID(data) == IF data.isObject THEN data.libraryID ELSE NoLibrary

\* The format taken from the body whatever it is.
ParsedFormatAsGiven(data) ==
    IF data.isObject /\ data.format # "absent" THEN data.format ELSE "md"

ParsedFormat(data) ==
    IF data.isObject /\ data.format \in {"org", "md"} THEN data.format ELSE "md"

\* Lines 1113-1121: the keys from position i on resolved one at a time.
RECURSIVE ResolveKeys(_, _, _, _, _, _, _)
ResolveKey(citekeys, i, mt, libraryID, bbt, searchThrows, acc, item) ==
    ResolveKeys(citekeys, i + 1, mt, libraryID, bbt, searchThrows,
                IF item # NoItem
                THEN [acc EXCEPT !.items = Append(@, item),
                                 !.resolvedCitekeys = Append(@, citekeys[i])]
                ELSE [acc EXCEPT !.notFoundKeys = Append(@, citekeys[i])])

ResolveKeys(citekeys, i, mt, libraryID, bbt, searchThrows, acc) ==
    IF i > Len(citekeys) THEN acc
    ELSE ResolveKey(citekeys, i, mt, libraryID, bbt, searchThrows, acc,
                    findItemByCitekey(mt, citekeys[i], libraryID, bbt, searchThrows))

\* Lines 1135-1166: the response to a batch once generateBatchContent has
\* settled to r.
BatchResponse(format, notFoundKeys, r) ==
    IF r.result.kind = "rejected" THEN Failure(500, "exception")
    ELSE IF r.result.kind = "null" THEN Failure(404, "no-annotations")
    ELSE Response(200,
            [EmptyBody EXCEPT
               !.fields = {"success", "itemCount", "totalAnnotations", "format",
                           "content", "items"}
                          \cup (IF format = "org" THEN {"org"} ELSE {})
                          \cup (IF Len(notFoundKeys) > 0 THEN {"error"} ELSE {}),
               !.success = TRUE,
               !.error = IF Len(notFoundKeys) > 0 THEN "items-not-found" ELSE "",
               !.notFound = notFoundKeys,
               !.itemCount = r.result.itemCount,
               !.annotationCount = r.result.totalAnnotations,
               !.format = format,
               !.content = r.result.content,
               !.items = r.result.items])

BatchAnswer(format, notFoundKeys, r) ==
    [responses |-> <<BatchResponse(format, notFoundKeys, r)>>, annots |-> r.annots]

\* The batch generated with the keys that were not found ahead of the
\* resolved ones.
BatchResolvedEveryKey(a, live, mt, format, rej, resolved) ==
    IF Len(resolved.items) = 0
    THEN [responses |-> <<Failure(404, "no-items-found")>>, annots |-> a]
    ELSE BatchAnswer(format, resolved.notFoundKeys,
                     generateBatchContent(a, live, mt, resolved.items, format,
                         [given |-> TRUE,
                          keys |-> resolved.notFoundKeys \o resolved.resolvedCitekeys],
                         rej))

\* Lines 1123-1133: the batch after the keys are resolved.
BatchResolved(a, live, mt, format, rej, resolved) ==
    IF Len(resolved.items) = 0
    THEN [responses |-> <<Failure(404, "no-items-found")>>, annots |-> a]
    ELSE BatchAnswer(format, resolved.notFoundKeys,
                     generateBatchContent(a, live, mt, resolved.items, format,
                         [given |-> TRUE, keys |-> resolved.resolvedCitekeys], rej))

\* Lines 1197-1232: the response to a single key once generateContent has
\* settled to r for the item found.
SingleResponse(mt, citekey, format, item, r) ==
    IF r.result.kind = "rejected" THEN Failure(500, "exception")
    ELSE IF r.result.kind = "null" THEN Failure(404, "no-annotations")
    ELSE Response(200,
            [EmptyBody EXCEPT
               !.fields = {"success", "citekey", "title", "annotationCount", "format",
                           "content"}
                          \cup (IF format = "org" THEN {"org"} ELSE {}),
               !.success = TRUE,
               !.citekey = citekey,
               !.title = IF mt[item].title.throws THEN <<>> ELSE mt[item].title.value,
               !.annotationCount = r.result.annotationCount,
               !.format = format,
               !.content = r.result.content])

SingleAnswer(mt, citekey, format, item, r) ==
    [responses |-> <<SingleResponse(mt, citekey, format, item, r)>>, annots |-> r.annots]

\* Lines 1183-1195: the single request after the lookup.
SingleResolved(a, live, mt, citekey, format, rej, item) ==
    IF item = NoItem
    THEN [responses |-> <<Failure(404, "item-not-found")>>, annots |-> a]
    ELSE SingleAnswer(mt, citekey, format, item,
                      generateContent(a, live, mt, item, format, rej))

\* CitekeyEndpoint.init(data, sendResponseCallback): the responses sent and
\* the host's annotation arrays afterwards.
CitekeyEndpoint(a, live, mt, data, bbt, searchThrows, rej) ==
    IF Len(ParsedCitekeys(data)) > 0
    THEN BatchResolved(a, live, mt, ParsedFormat(data), rej,
             ResolveKeys(ParsedCitekeys(data), 1, mt, ParsedLibraryID(data), bbt,
                         searchThrows,
                         [items |-> <<>>, resolvedCitekeys |-> <<>>, notFoundKeys |-> <<>>]))
    ELSE IF ~Truthy(ParsedCitekey(data))
    THEN [responses |-> <<Failure(400, "missing-key")>>, annots |-> a]
    ELSE SingleResolved(a, live, mt, ParsedCitekey(data), ParsedFormat(data), rej,
             findItemByCitekey(mt, ParsedCitekey(data), ParsedLibraryID(data), bbt,
                               searchThrows))

\* What a handler leaves behind: the responses it sent, the state-changing
\* host calls it made, the host's annotation arrays.
Outcome(responses, effects, a) == [responses |-> responses, effects |-> effects, annots |-> a]

\* { success: true, ... } with status 200 and the given further properties.
Success(properties) ==
    Response(200, [EmptyBody EXCEPT !.fields = {"success"} \cup properties,
                                    !.success = TRUE])

\* { success: false, error, ... } with the given status and further
\* properties.
FailureWith(status, error, properties) ==
    Response(status, [EmptyBody EXCEPT !.fields = {"success", "error"} \cup properties,
                                       !.error = error])

\* LibrariesEndpoint.init: throwAt is the position of the host call that
\* throws (0: none).
LibrariesEndpoint(a, throwAt) ==
    IF throwAt = 1 THEN Outcome(<<Failure(500, "exception")>>, <<>>, a)
    ELSE Outcome(<<Success({"libraries"})>>, <<>>, a)

\* The answers of Better BibTeX to item.citationkey("selected").
PickerModes == {"rejects", "notOk", "bbtError", "noResult", "noCitekey", "selected"}

\* PickerEndpoint.init
PickerEndpoint(a, picker) ==
    CASE picker = "rejects" -> Outcome(<<Failure(500, "exception")>>, <<>>, a)
      [] picker = "notOk" -> Outcome(<<Failure(500, "bbt-query-failed")>>, <<>>, a)
      [] picker = "bbtError" -> Outcome(<<Failure(500, "bbt-error")>>, <<>>, a)
      [] picker = "noResult" -> Outcome(<<Failure(200, "no-item-selected")>>, <<>>, a)
      [] picker = "noCitekey" -> Outcome(<<Failure(200, "no-citation-key")>>, <<>>, a)
      [] OTHER -> Outcome(<<Success({"citekey", "itemKey"})>>, <<>>, a)

\* CollectionsListEndpoint.init
CollectionsListEndpoint(a, throwAt) ==
    IF throwAt = 1 THEN Outcome(<<Failure(500, "exception")>>, <<>>, a)
    ELSE Outcome(<<Success({"libraryID", "collections"})>>, <<>>, a)

\* The collections the host holds: C1 with two regular items, a note and,
\* below it, a third regular item; C2 with a note only.
HostCollections ==
    {[key |-> <<"C1">>, libraryID |-> 1, childItems |-> <<1, 9, 2>>,
      descendents |-> <<1, 9, 2, 7>>],
     [key |-> <<"C2">>, libraryID |-> 1, childItems |-> <<9>>, descendents |-> <<9>>]}

\* Zotero.Collections.getByLibraryAndKeyAsync found a collection.
CollectionExists(libraryID, key) ==
    \E c \in HostCollections : c.key = key /\ c.libraryID = libraryID

CollectionAt(libraryID, key) ==
    CHOOSE c \in HostCollections : c.key = key /\ c.libraryID = libraryID

\* Lines 1468-1487: the collection key of the request data.
ParsedCollectionKey(data) ==
    IF ~data.isObject THEN Undefined
    ELSE IF data.collectionKey # Undefined THEN data.collectionKey
    ELSE data.collectionID

\* Lines 1563-1584: the response once generateBatchContent has settled to r.
CollectionAnswer(format, r) ==
    Outcome(<<IF r.result.kind = "rejected" THEN Failure(500, "exception")
              ELSE IF r.result.kind = "null"
              THEN FailureWith(200, "no-annotations", {"collectionName", "itemCount"})
              ELSE Response(200,
                      [EmptyBody EXCEPT
                         !.fields = {"success", "collectionName", "collectionKey",
                                     "recursive", "itemCount", "totalAnnotations",
                                     "format", "content", "items"}
                                    \cup (IF format = "org" THEN {"org"} ELSE {}),
                         !.success = TRUE,
                         !.itemCount = r.result.itemCount,
                         !.annotationCount = r.result.totalAnnotations,
                         !.format = format,
                         !.content = r.result.content,
                         !.items = r.result.items])>>,
            <<>>, r.annots)

\* Lines 1526-1561: the items of the collection, regular items only.
CollectionItems(a, live, mt, format, rej, items) ==
    IF Len(items) = 0
    THEN Outcome(<<FailureWith(200, "no-regular-items", {"collectionName"})>>, <<>>, a)
    ELSE CollectionAnswer(format,
             generateBatchContent(a, live, mt, items, format,
                                  [given |-> FALSE, keys |-> <<>>], rej))

\* CollectionEndpoint.init
CollectionEndpoint(a, live, mt, data, throwAt, rej) ==
    IF ~Truthy(ParsedCollectionKey(data))
    THEN Outcome(<<Failure(400, "missing-collection-key")>>, <<>>, a)
    ELSE IF throwAt = 1 THEN Outcome(<<Failure(500, "exception")>>, <<>>, a)
    ELSE IF ~CollectionExists(IF data.libraryID # NoLibrary THEN data.libraryID
                              ELSE userLibraryID,
                              ParsedCollectionKey(data))
    THEN Outcome(<<Failure(404, "collection-not-found")>>, <<>>, a)
    ELSE IF throwAt = 2 THEN Outcome(<<Failure(500, "exception")>>, <<>>, a)
    ELSE CollectionItems(a, live, mt, ParsedFormat(data), rej,
             SelectSeq(IF data.recursive
                       THEN CollectionAt(IF data.libraryID # NoLibrary THEN data.libraryID
                                         ELSE userLibraryID,
                                         ParsedCollectionKey(data)).descendents
                       ELSE CollectionAt(IF data.libraryID # NoLibrary THEN data.libraryID
                                         ELSE userLibraryID,
                                         ParsedCollectionKey(data)).childItems,
                       isRegularItem))

\* CollectionCurrentEndpoint.init: the body of the 200 response has no
\* success property.
CollectionCurrentEndpoint(a, throwAt) ==
    IF throwAt \in 1..3 THEN Outcome(<<Failure(500, "exception")>>, <<>>, a)
    ELSE Outcome(<<Response(200,
                     [EmptyBody EXCEPT !.fields = {"libraryID", "libraryName",
                                                   "libraryType", "collection"}])>>,
                 <<>>, a)

\* The handler going on after it answered 404: reading the id of the
\* collection that was not found throws, and the catch answers again.
CollectionSelectEndpointGoesOn(a, data, throwAt) ==
    IF ~data.isObject \/ data.libraryID = NoLibrary
    THEN Outcome(<<Failure(400, "missing-libraryID")>>, <<>>, a)
    ELSE IF throwAt = 1 THEN Outcome(<<Failure(500, "exception")>>, <<>>, a)
    ELSE IF ~Truthy(data.collectionKey)
    THEN IF throwAt = 2
         THEN Outcome(<<Failure(500, "exception")>>, <<"selectLibrary">>, a)
         ELSE Outcome(<<Success({"selected"})>>, <<"selectLibrary">>, a)
    ELSE IF throwAt = 2 THEN Outcome(<<Failure(500, "exception")>>, <<>>, a)
    ELSE IF ~CollectionExists(data.libraryID, data.collectionKey)
    THEN Outcome(<<Failure(404, "collection-not-found"), Failure(500, "exception")>>,
                 <<>>, a)
    ELSE IF throwAt = 3
    THEN Outcome(<<Failure(500, "exception")>>, <<"selectCollection">>, a)
    ELSE Outcome(<<Success({"selected"})>>, <<"selectCollection">>, a)

\* CollectionSelectEndpoint.init: the host calls are getActiveZoteroPane (1),
\* then selectLibrary (2), or getByLibraryAndKeyAsync (2) and
\* selectCollection (3).
CollectionSelectEndpoint(a, data, throwAt) ==
    IF ~data.isObject \/ data.libraryID = NoLibrary
    THEN Outcome(<<Failure(400, "missing-libraryID")>>, <<>>, a)
    ELSE IF throwAt = 1 THEN Outcome(<<Failure(500, "exception")>>, <<>>, a)
    ELSE IF ~Truthy(data.collectionKey)
    THEN IF throwAt = 2
         THEN Outcome(<<Failure(500, "exception")>>, <<"selectLibrary">>, a)
         ELSE Outcome(<<Success({"selected"})>>, <<"selectLibrary">>, a)
    ELSE IF throwAt = 2 THEN Outcome(<<Failure(500, "exception")>>, <<>>, a)
    ELSE IF ~CollectionExists(data.libraryID, data.collectionKey)
    THEN Outcome(<<Failure(404, "collection-not-found")>>, <<>>, a)
    ELSE IF throwAt = 3
    THEN Outcome(<<Failure(500, "exception")>>, <<"selectCollection">>, a)
    ELSE Outcome(<<Success({"selected"})>>, <<"selectCollection">>, a)

\* The handler saving the collection before it looks at the name.
CollectionCreateEndpointSaveFirst(a, data, throwAt) ==
    IF ~data.isObject \/ data.libraryID = NoLibrary
    THEN Outcome(<<Failure(400, "missing-libraryID")>>, <<>>, a)
    ELSE IF throwAt = 1 THEN Outcome(<<Failure(500, "exception")>>, <<>>, a)
    ELSE IF throwAt = 2 THEN Outcome(<<Failure(500, "exception")>>, <<"saveTx">>, a)
    ELSE IF ~Truthy(data.name)
    THEN Outcome(<<Failure(400, "missing-name")>>, <<"saveTx">>, a)
    ELSE Outcome(<<Success({"collection"})>>, <<"saveTx">>, a)

\* CollectionCreateEndpoint.init: the host calls are new Zotero.Collection
\* (1) and saveTx (2).
CollectionCreateEndpoint(a, data, throwAt) ==
    IF ~data.isObject \/ data.libraryID = NoLibrary
    THEN Outcome(<<Failure(400, "missing-libraryID")>>, <<>>, a)
    ELSE IF ~Truthy(data.name)
    THEN Outcome(<<Failure(400, "missing-name")>>, <<>>, a)
    ELSE IF throwAt = 1 THEN Outcome(<<Failure(500, "exception")>>, <<>>, a)
    ELSE IF throwAt = 2 THEN Outcome(<<Failure(500, "exception")>>, <<"saveTx">>, a)
    ELSE Outcome(<<Success({"collection"})>>, <<"saveTx">>, a)

\* No parent: c.parentKey || null.
NoParent == <<>>

\* buildCollectionTree(collections, parentKey)
RECURSIVE buildCollectionTree(_, _)
TreeNode(collections, c) ==
    [key |-> c.key, parentKey |-> c.parentKey,
     children |-> buildCollectionTree(collections, c.key)]

buildCollectionTree(collections, parentKey) ==
    [i \in 1..Len(SelectSeq(collections, LAMBDA c : c.parentKey = parentKey)) |->
        TreeNode(collections, SelectSeq(collections, LAMBDA c : c.parentKey = parentKey)[i])]

\* CollectionsListHierarchicalEndpoint.init: collections is what
\* getByLibrary gives for the user library; the body of the 200 response is
\* { libraries } and has no success property.
CollectionsListHierarchicalEndpoint(a, collections, throwAt) ==
    IF throwAt \in 1..2 THEN Outcome(<<Failure(500, "exception")>>, <<>>, a)
    ELSE Outcome(<<Response(200,
                     [EmptyBody EXCEPT
                        !.fields = {"libraries"},
                        !.tree = buildCollectionTree(
                                    SelectSeq(collections, LAMBDA c : ~c.deleted),
                                    NoParent)])>>,
                 <<>>, a)

(***************************************************************************)
(* Inputs: the annotations and the metadata the host holds.                *)
(***************************************************************************)
AnnotationTypes == <<"highlight", "note", "image", "ink", "underline", "text">>

SomeRects == [json |-> "object", hasRects |-> TRUE, rects |-> <<<<0, 2500, 100000, 3000>>>>]

Malformed == [json |-> "malformed", hasRects |-> FALSE, rects |-> <<>>]

\* The i-th annotation of an attachment; its key records the position the
\* host first delivered it at.
MkAnnotation(i, pageLabel, sortIndex) ==
    [key |-> <<"K" \o ToString(i)>>,
     annotationType |-> AnnotationTypes[((i - 1) % Len(AnnotationTypes)) + 1],
     annotationText |-> <<" ", "h", "i", "\n", "x", " ">>,
     annotationComment |-> IF i % 2 = 0 THEN <<"o", "k", " ">> ELSE Undefined,
     annotationPageLabel |-> pageLabel,
     annotationPosition |-> IF i % 2 = 1 THEN SomeRects ELSE Malformed,
     annotationSortIndex |-> sortIndex,
     noTags |-> FALSE,
     tags |-> IF i % 3 = 0 THEN <<<<"m", "l">>, <<"a", " ", "b">>>> ELSE <<>>]

PageLabels == {<<"1", "0">>, <<"2">>}

SortIndexes == {<<"a">>, <<"b">>}

\* Lists for the EPUB attachment: none, or two annotations on unnumbered
\* locations, the second without label and without sort index.
EpubLists ==
    {<<>>,
     <<MkAnnotation(1, <<"i", "v">>, <<"b">>), MkAnnotation(2, Undefined, Undefined)>>}

\* The list of the PDF that has no parent: labels "3", "2a" and "-1".
StandaloneList ==
    <<MkAnnotation(1, <<"3">>, <<"a">>), MkAnnotation(2, <<"2", "a">>, <<"a", "b">>),
      MkAnnotation(3, <<"-", "1">>, Undefined)>>

Thrown == [throws |-> TRUE, value |-> <<>>]

Got(v) == [throws |-> FALSE, value |-> v]

CitationKeyExtra ==
    <<"t", "e", "x", ":", " ", "1", "\n",
      "C", "i", "t", "a", "t", "i", "o", "n", " ", "K", "e", "y", ":", " ", "a", "b", " ",
      "\n", "x">>

\* An extra field with two citation-key lines, the first in another case and
\* with two blanks before the key.
TwoKeysExtra ==
    <<"x", "\n",
      "c", "i", "t", "a", "t", "i", "o", "n", " ", "K", "E", "Y", ":", " ", " ", "k", "1", " ",
      "\n",
      "C", "i", "t", "a", "t", "i", "o", "n", " ", "K", "e", "y", ":", " ", "k", "2">>

SomeCreators ==
    <<[creatorType |-> "editor", lastName |-> <<"E">>, firstName |-> <<"d">>,
       name |-> Undefined],
      [creatorType |-> "author", lastName |-> <<"L">>, firstName |-> <<"F">>,
       name |-> Undefined],
      [creatorType |-> "author", lastName |-> Undefined, firstName |-> Undefined,
       name |-> <<"O", "r", "g">>]>>

FullMeta ==
    [title |-> Got(<<"T">>), date |-> Got(<<"2", "0", "2", "0">>), DOI |-> Got(<<"1", "0", ".", "1">>),
     url |-> Got(<<"u", ":", "/">>), abstractNote |-> Got(<<"A", "b", "s">>),
     publicationTitle |-> Got(<<"J">>), key |-> <<"ITEM1">>,
     creators |-> [throws |-> FALSE, value |-> SomeCreators],
     extra |-> Got(CitationKeyExtra)]

BareMeta ==
    [title |-> Got(<<>>), date |-> Got(<<>>), DOI |-> Got(<<>>), url |-> Got(<<>>),
     abstractNote |-> Got(<<>>), publicationTitle |-> Got(<<>>), key |-> <<"ITEM7">>,
     creators |-> [throws |-> FALSE, value |-> <<>>], extra |-> Got(<<>>)]

\* Metadata of the library's regular items: item 1 has every field, item 2
\* is of a type whose title accessor throws, item 7 has no field filled in.
FixedMeta ==
    [i \in RegularItems |->
        CASE i = 1 -> FullMeta
          [] i = 2 -> [FullMeta EXCEPT !.title = Thrown, !.key = <<"ITEM2">>]
          [] OTHER -> BareMeta]

FieldOutcomes(v) == {Thrown, Got(<<>>), Got(v)}

\* Every combination of throwing, empty and filled-in accessors for item 1.
MetaChoices ==
    {[title |-> t, date |-> d, DOI |-> o, url |-> u, abstractNote |-> a,
      publicationTitle |-> p, key |-> <<"ITEM1">>, creators |-> c, extra |-> e] :
        t \in FieldOutcomes(<<"T">>), d \in FieldOutcomes(<<"2", "0", "2", "0">>),
        o \in FieldOutcomes(<<"1", "0", ".", "1">>), u \in FieldOutcomes(<<"u", ":", "/">>),
        a \in FieldOutcomes(<<"A", "b", "s">>), p \in FieldOutcomes(<<"J">>),
        c \in {[throws |-> TRUE, value |-> <<>>], [throws |-> FALSE, value |-> <<>>],
               [throws |-> FALSE, value |-> SomeCreators]},
        e \in FieldOutcomes(CitationKeyExtra) \cup {Got(TwoKeysExtra)}}

(***************************************************************************)
(* Specification Spec: a caller makes one single-item export call, and     *)
(* makes it again, against every annotation list of the main PDF.          *)
(***************************************************************************)
\* The items single exports are asked for (5 and 6 behave as the note 9
\* does: neither regular nor PDF/EPUB).
CallItems == {1, 2, 3, 4, 7, 8, 9}

\* The ids whose fetch may reject during a call: the parent item 1, the
\* attachment 4.
RejectChoices == {NoReject, 1, 4}

Init ==
    /\ \E n \in 0..MaxAnnots : \E f \in [1..n -> PageLabels \X SortIndexes] :
       \E e \in EpubLists :
          annots = [att \in AnnotatedAttachments |->
                      CASE att = 3 -> [i \in 1..n |-> MkAnnotation(i, f[i][1], f[i][2])]
                        [] att = 4 -> e
                        [] OTHER -> StandaloneList]
    /\ shared \in BOOLEAN
    /\ meta = FixedMeta
    /\ \E item \in CallItems, format \in Formats, rej \in RejectChoices :
          request = [item |-> item, format |-> format, rej |-> rej]
    /\ last = [op |-> "none"]
    /\ calls = 0

\* One call of Exporter.generateContent(item, format).
GenerateContentCall ==
    /\ calls < MaxCalls
    /\ \E r \in {generateContent(annots, shared, meta, request.item, request.format,
                                  request.rej)} :
          /\ last' = [op |-> "generateContent", result |-> r.result]
          /\ annots' = r.annots
    /\ calls' = calls + 1
    /\ UNCHANGED <<shared, meta, request>>

Next == GenerateContentCall

Spec == Init /\ [][Next]_vars

(***************************************************************************)
(* Specification SpecBatch: a caller makes one batch export call, for      *)
(* every short item list.                                                  *)
(***************************************************************************)
TwoAnnotations == <<MkAnnotation(1, <<"1", "0">>, <<"a">>), MkAnnotation(2, <<"2">>, <<"b">>)>>

\* The items a batch is made of: a regular item, a regular item without
\* eligible attachment, a child PDF and the PDF without parent.
BatchItems == {1, 2, 3, 8}

AllCitekeys == <<<<"k1">>, <<"k2">>, <<"k3">>, <<"k4">>, <<"k5">>>>

\* The citekeys argument: left out, aligned with the items, or one short.
CitekeyChoices(n) ==
    {[given |-> FALSE, keys |-> <<>>], [given |-> TRUE, keys |-> SubSeq(AllCitekeys, 1, n)]}
    \cup (IF n > 0 THEN {[given |-> TRUE, keys |-> SubSeq(AllCitekeys, 1, n - 1)]} ELSE {})

InitBatch ==
    /\ \E l \in {<<>>, TwoAnnotations} :
          annots = [att \in AnnotatedAttachments |->
                      CASE att = 3 -> l [] att = 4 -> <<>> [] OTHER -> StandaloneList]
    /\ shared \in BOOLEAN
    /\ meta = FixedMeta
    /\ \E n \in 0..MaxBatch : \E items \in [1..n -> BatchItems] :
       \E format \in Formats, citekeys \in CitekeyChoices(n), rej \in {NoReject, 4} :
          request = [items |-> items, format |-> format, citekeys |-> citekeys,
                     rej |-> rej]
    /\ last = [op |-> "none"]
    /\ calls = 0

\* One call of Exporter.generateBatchContent(items, format, citekeys).
GenerateBatchContentCall ==
    /\ calls < MaxCalls
    /\ \E r \in {generateBatchContent(annots, shared, meta, request.items,
                                       request.format, request.citekeys, request.rej)} :
          /\ last' = [op |-> "generateBatchContent", result |-> r.result]
          /\ annots' = r.annots
    /\ calls' = calls + 1
    /\ UNCHANGED <<shared, meta, request>>

NextBatch == GenerateBatchContentCall

SpecBatch == InitBatch /\ [][NextBatch]_vars

(***************************************************************************)
(* Specification SpecExport: a caller exports an item list to files, or    *)
(* asks for its batch content, while one fetch of the host may reject.     *)
(***************************************************************************)
InitExport ==
    /\ annots = [att \in AnnotatedAttachments |->
                   CASE att = 3 -> TwoAnnotations [] att = 4 -> <<>> [] OTHER -> StandaloneList]
    /\ shared \in BOOLEAN
    /\ meta = FixedMeta
    /\ \E n \in 0..MaxBatch : \E items \in [1..n -> BatchItems] :
       \E format \in Formats, rej \in RejectChoices, cancel \in 0..n :
          request = [items |-> items, format |-> format,
                     citekeys |-> [given |-> FALSE, keys |-> <<>>],
                     rej |-> rej, cancel |-> cancel]
    /\ last = [op |-> "none"]
    /\ calls = 0

\* One call of Exporter.exportItems(items, format).
ExportItemsCall ==
    /\ calls < MaxCalls
    /\ \E r \in {exportItems(annots, shared, meta, request.items, request.format,
                              request.rej, request.cancel)} :
          /\ last' = [op |-> "exportItems", rejected |-> r.rejected, written |-> r.written]
          /\ annots' = r.annots
    /\ calls' = calls + 1
    /\ UNCHANGED <<shared, meta, request>>

NextExport == ExportItemsCall \/ GenerateBatchContentCall

SpecExport == InitExport /\ [][NextExport]_vars

(***************************************************************************)
(* Specification SpecApi: one request to one of the nine endpoints, made   *)
(* and made again, with every outcome of the host calls behind it.         *)
(***************************************************************************)
\* The metadata behind the API: item 1 has citation key ab, item 2 abc.
ApiMeta ==
    [FixedMeta EXCEPT ![2].extra =
        Got(<<"C", "i", "t", "a", "t", "i", "o", "n", " ", "K", "e", "y", ":", " ",
              "a", "b", "c">>)]

\* The citation keys requests ask for: the key of item 1, the key of item 2,
\* a part of both, a key no item has.
RequestKeys == {<<"a", "b">>, <<"a", "b", "c">>, <<"b">>, <<"z", "z">>}

DefaultData ==
    [isObject |-> TRUE, hasKey |-> FALSE, key |-> <<>>, keysIsArray |-> FALSE,
     keys |-> <<>>, libraryID |-> NoLibrary, format |-> "absent",
     collectionKey |-> Undefined, collectionID |-> Undefined, recursive |-> FALSE,
     name |-> Undefined]

DefaultRequest ==
    [endpoint |-> "", data |-> DefaultData, bbt |-> "itemKey", searchThrows |-> FALSE,
     rej |-> NoReject, throwAt |-> 0, picker |-> "selected", collections |-> <<>>]

\* The bodies and host behaviours of single-key requests, as <<isObject,
\* key, keys, libraryID, format, bbt, searchThrows, rej>>: the search throws
\* only when it is reached, and a body that is no object, has a keys array
\* or names a library comes with a host that does not fail.
SingleKeyChoices ==
    {c \in BOOLEAN \X (RequestKeys \cup {Undefined, <<>>})
           \X {Undefined, <<>>, <<NonString>>} \X {NoLibrary, 2}
           \X {"absent", "org", "md", "txt"} \X BbtModes \X BOOLEAN \X {NoReject, 4} :
        /\ c[7] => c[6] \in {"empty", "rejects"}
        /\ ~c[1] => c[6] = "itemKey" /\ ~c[7] /\ c[8] = NoReject /\ c[4] = NoLibrary
        /\ c[3] # Undefined => c[6] = "itemKey" /\ ~c[7] /\ c[8] = NoReject
        /\ c[4] # NoLibrary => c[6] \in {"itemKey", "empty"} /\ c[8] = NoReject}

\* Requests to /export-org/citekey with at most an unusable keys array.
SingleKeyRequests ==
    {[DefaultRequest EXCEPT
        !.endpoint = "citekey",
        !.data = [DefaultData EXCEPT !.isObject = c[1], !.hasKey = c[2] # Undefined,
                                     !.key = IF c[2] = Undefined THEN <<>> ELSE c[2],
                                     !.keysIsArray = c[3] # Undefined,
                                     !.keys = IF c[3] = Undefined THEN <<>> ELSE c[3],
                                     !.libraryID = c[4], !.format = c[5]],
        !.bbt = c[6], !.searchThrows = c[7], !.rej = c[8]] :
        c \in SingleKeyChoices}

\* The further choices of a batch, as <<hasKey, bbt, rej>>.
BatchChoices ==
    {c \in BOOLEAN \X {"itemKey", "empty"} \X {NoReject, 4} :
        /\ c[1] => c[2] = "itemKey" /\ c[3] = NoReject
        /\ c[3] # NoReject => c[2] = "itemKey"}

\* Requests to /export-org/citekey with a keys array of at least one entry.
BatchKeyRequests ==
    UNION {{[DefaultRequest EXCEPT
               !.endpoint = "citekey",
               !.data = [DefaultData EXCEPT !.hasKey = c[1], !.key = <<"z", "z">>,
                                            !.keysIsArray = TRUE, !.keys = ks,
                                            !.format = f],
               !.bbt = c[2], !.rej = c[3]] :
               ks \in [1..n -> (RequestKeys \ {<<"b">>}) \cup {NonString}],
               f \in {"org", "md"}, c \in BatchChoices} :
           n \in 1..MaxBatch}

\* Requests to the endpoints that take no parameter.
PlainRequests ==
    {[DefaultRequest EXCEPT !.endpoint = e, !.throwAt = t, !.picker = p] :
        e \in {"libraries", "picker", "collections", "collection/current"},
        t \in 0..3, p \in PickerModes}

CollectionRequests ==
    {[DefaultRequest EXCEPT
        !.endpoint = "collection",
        !.data = [DefaultData EXCEPT !.isObject = o, !.collectionKey = k,
                                     !.collectionID = i, !.recursive = c,
                                     !.libraryID = l, !.format = f],
        !.throwAt = t, !.rej = r] :
        o \in BOOLEAN, k \in {Undefined, <<>>, <<"C1">>, <<"C2">>, <<"C9">>},
        i \in {Undefined, <<"C1">>, <<"5">>}, c \in BOOLEAN, l \in {NoLibrary, 2},
        f \in {"absent", "org"}, t \in 0..2, r \in {NoReject, 4}}

SelectRequests ==
    {[DefaultRequest EXCEPT
        !.endpoint = "collection/select",
        !.data = [DefaultData EXCEPT !.isObject = o, !.collectionKey = k,
                                     !.libraryID = l],
        !.throwAt = t] :
        o \in BOOLEAN, k \in {Undefined, <<>>, <<"C1">>, <<"C9">>},
        l \in {NoLibrary, 1, 2}, t \in 0..3}

CreateRequests ==
    {[DefaultRequest EXCEPT
        !.endpoint = "collection/create",
        !.data = [DefaultData EXCEPT !.isObject = o, !.name = n, !.libraryID = l],
        !.throwAt = t] :
        o \in BOOLEAN, n \in {Undefined, <<>>, <<"N">>}, l \in {NoLibrary, 1}, t \in 0..2}

\* Longest list of collections a library holds.
MaxCollections == 3

\* The collection lists of a library: collection i may lie below a
\* collection listed before it, and may be in the trash.
CollectionLists ==
    UNION {{[i \in 1..n |->
               [key |-> <<"C" \o ToString(i)>>,
                parentKey |-> IF f[i] = 0 THEN NoParent ELSE <<"C" \o ToString(f[i])>>,
                deleted |-> d[i]]] :
               f \in {g \in [1..n -> 0..n] : \A i \in 1..n : g[i] < i},
               d \in [1..n -> BOOLEAN]} :
           n \in 0..MaxCollections}

ListRequests ==
    {[DefaultRequest EXCEPT !.endpoint = "collections/list", !.collections = c,
                            !.throwAt = t] :
        c \in CollectionLists, t \in 0..2}

InitApi ==
    /\ \E l \in {<<>>, TwoAnnotations} :
          annots = [att \in AnnotatedAttachments |->
                      CASE att = 3 -> l [] att = 4 -> <<>> [] OTHER -> StandaloneList]
    /\ shared = FALSE
    /\ meta \in {ApiMeta, [ApiMeta EXCEPT ![1].title = Thrown]}
    /\ request \in SingleKeyRequests \cup BatchKeyRequests \cup PlainRequests
                   \cup CollectionRequests \cup SelectRequests \cup CreateRequests
                   \cup ListRequests
    /\ meta # ApiMeta => request \in SingleKeyRequests
    /\ annots[3] = <<>> => request.endpoint \in {"citekey", "collection"}
    /\ last = [op |-> "none"]
    /\ calls = 0

\* The server calls init of the endpoint registered for the request; r is
\* what the handler leaves behind.
Handled(endpoint, r) ==
    /\ calls < MaxCalls
    /\ request.endpoint = endpoint
    /\ last' = [op |-> "init", endpoint |-> endpoint, responses |-> r.responses,
                effects |-> r.effects]
    /\ annots' = r.annots
    /\ calls' = calls + 1
    /\ UNCHANGED <<shared, meta, request>>

CitekeyRequest ==
    \E r \in {CitekeyEndpoint(annots, shared, meta, request.data, request.bbt,
                              request.searchThrows, request.rej)} :
        Handled("citekey", Outcome(r.responses, <<>>, r.annots))

LibrariesRequest == Handled("libraries", LibrariesEndpoint(annots, request.throwAt))

PickerRequest == Handled("picker", PickerEndpoint(annots, request.picker))

CollectionsRequest ==
    Handled("collections", CollectionsListEndpoint(annots, request.throwAt))

CollectionRequest ==
    \E r \in {CollectionEndpoint(annots, shared, meta, request.data, request.throwAt,
                                 request.rej)} :
        Handled("collection", r)

CollectionCurrentRequest ==
    Handled("collection/current", CollectionCurrentEndpoint(annots, request.throwAt))

CollectionSelectRequest ==
    Handled("collection/select",
            CollectionSelectEndpoint(annots, request.data, request.throwAt))

CollectionCreateRequest ==
    Handled("collection/create",
            CollectionCreateEndpoint(annots, request.data, request.throwAt))

CollectionsListRequest ==
    Handled("collections/list",
            CollectionsListHierarchicalEndpoint(annots, request.collections,
                                                request.throwAt))

NextApi ==
    \/ CitekeyRequest
    \/ LibrariesRequest
    \/ PickerRequest
    \/ CollectionsRequest
    \/ CollectionRequest
    \/ CollectionCurrentRequest
    \/ CollectionSelectRequest
    \/ CollectionCreateRequest
    \/ CollectionsListRequest

SpecApi == InitApi /\ [][NextApi]_vars

(***************************************************************************)
(* Specification SpecMeta: the two metadata formatters on item 1, for      *)
(* every combination of throwing, empty and filled-in accessors.           *)
(***************************************************************************)
InitMeta ==
    /\ annots = [att \in AnnotatedAttachments |-> <<>>]
    /\ shared = FALSE
    /\ \E m \in MetaChoices : meta = [i \in RegularItems |-> IF i = 1 THEN m ELSE BareMeta]
    /\ \E format \in Formats : request = [item |-> 1, format |-> format]
    /\ last = [op |-> "none"]
    /\ calls = 0

\* One call of MetadataFormatter.format (org) or
\* MarkdownMetadataFormatter.format (md) on the requested item.
FormatMetadataCall ==
    /\ calls < MaxCalls
    /\ last' = [op |-> "format",
                header |-> IF request.format = "org"
                           THEN MetadataFormatterFormat(meta[request.item])
                           ELSE MarkdownMetadataFormatterFormat(meta[request.item])]
    /\ calls' = calls + 1
    /\ UNCHANGED <<annots, shared, meta, request>>

NextMeta == FormatMetadataCall

SpecMeta == InitMeta /\ [][NextMeta]_vars

(***************************************************************************)
(* Specification SpecYaml: the header formatters on an item whose fields   *)
(* hold double quotes and backslashes.                                     *)
(***************************************************************************)
\* Texts a user types into a field: plain, with a double quote, and a
\* backslash followed by a double quote.
QuotedTexts == {<<"a", "b">>, <<"a", "\"", "b">>, <<"\\", "\"">>}

\* One author whose last name holds a double quote.
QuotedCreators ==
    <<[creatorType |-> "author", lastName |-> <<"O", "\"", "N">>, firstName |-> <<"F">>,
       name |-> Undefined]>>

\* Extra fields whose citation key is plain, holds a double quote, or holds
\* a backslash.
QuotedExtras ==
    {<<"C", "i", "t", "a", "t", "i", "o", "n", " ", "K", "e", "y", ":", " ">> \o k :
        k \in {<<"k", "1">>, <<"a", "\"", "b">>, <<"a", "\\", "b">>}}

InitYaml ==
    /\ annots = [att \in AnnotatedAttachments |-> <<>>]
    /\ shared = FALSE
    /\ \E t \in QuotedTexts, d \in QuotedTexts, o \in QuotedTexts, u \in QuotedTexts,
          p \in QuotedTexts, c \in {SomeCreators, QuotedCreators}, e \in QuotedExtras :
          meta = [i \in RegularItems |->
                    IF i = 1
                    THEN [title |-> Got(t), date |-> Got(d), DOI |-> Got(o), url |-> Got(u),
                          abstractNote |-> Got(<<>>), publicationTitle |-> Got(p),
                          key |-> <<"ITEM1">>, creators |-> Got(c), extra |-> Got(e)]
                    ELSE BareMeta]
    /\ \E format \in Formats : request = [item |-> 1, format |-> format]
    /\ last = [op |-> "none"]
    /\ calls = 0

SpecYaml == InitYaml /\ [][NextMeta]_vars

(***************************************************************************)
(* Specification SpecFormat: the two annotation formatters on one          *)
(* annotation of one attachment, as the export loop calls them.            *)
(***************************************************************************)
\* A rectangle list whose first rectangle has the given y and whose second
\* rectangle lies elsewhere on the page.
RectsAt(y) ==
    [json |-> "object", hasRects |-> TRUE,
     rects |-> <<<<0, y, 100000, y + 500>>, <<0, 5000, 100000, 5500>>>>]

\* The y coordinates drawn, in units of 1/10000: -5, 0, 0.25, 1, 1.0001, 100,
\* 396, 792 and 1000.
SomeYs == {-50000, 0, 2500, 10000, 10001, 1000000, 3960000, 7920000, 10000000}

\* The annotationPosition values drawn: text that is not JSON, an object
\* without rects, an empty rects list, a first rectangle of three numbers,
\* and rectangles at each of the y coordinates.
Positions ==
    {Malformed,
     [json |-> "object", hasRects |-> FALSE, rects |-> <<>>],
     [json |-> "object", hasRects |-> TRUE, rects |-> <<>>],
     [json |-> "object", hasRects |-> TRUE,
      rects |-> <<<<0, 2500, 100000>>, <<0, 5000, 100000, 5500>>>>]}
    \cup {RectsAt(y) : y \in SomeYs}

TextChoices == {Undefined, <<>>, <<" ", "h", "i", "\n", "x", " ">>}

CommentChoices == {Undefined, <<" ", "\t">>, <<" ", "o", "k", " ">>}

LabelChoices == {Undefined, <<>>, <<"x">>, <<"0">>, <<"-", "1">>, <<"5">>, <<"1", "2", "a">>}

\* What getTags() returns: nothing, an empty list, one tag, two tags.
TagChoices ==
    {[noTags |-> TRUE, tags |-> <<>>],
     [noTags |-> FALSE, tags |-> <<>>],
     [noTags |-> FALSE, tags |-> <<<<"#", "m", "l">>>>],
     [noTags |-> FALSE,
      tags |-> <<<<"m", " ", " ", "l", "\t", "x">>, <<"a", ":", "b", "#", "c">>>>]}

\* The annotations handed to the formatters: every combination of kind,
\* text, comment, page label and tags at one position, and every position
\* for every kind.
AnnotationChoices ==
    {[key |-> <<"K1">>, annotationType |-> AnnotationTypes[t], annotationText |-> x,
      annotationComment |-> c, annotationPageLabel |-> l, annotationPosition |-> SomeRects,
      annotationSortIndex |-> Undefined, noTags |-> g.noTags, tags |-> g.tags] :
        t \in 1..Len(AnnotationTypes), x \in TextChoices, c \in CommentChoices,
        l \in LabelChoices, g \in TagChoices}
    \cup
    {[key |-> <<"K1">>, annotationType |-> AnnotationTypes[t],
      annotationText |-> <<"h", "i">>, annotationComment |-> Undefined,
      annotationPageLabel |-> <<"5">>, annotationPosition |-> p,
      annotationSortIndex |-> Undefined, noTags |-> FALSE, tags |-> <<>>] :
        t \in 1..Len(AnnotationTypes), p \in Positions}

InitFormat ==
    /\ annots = [att \in AnnotatedAttachments |-> <<>>]
    /\ shared = FALSE
    /\ meta = FixedMeta
    /\ \E a \in AnnotationChoices, att \in AnnotatedAttachments, format \in Formats :
          request = [annotation |-> a, attachment |-> att, format |-> format]
    /\ last = [op |-> "none"]
    /\ calls = 0

\* One call of AnnotationFormatter.format (org) or MarkdownFormatter.format
\* (md) with the arguments the export loop passes for the attachment.
FormatAnnotationCall ==
    /\ calls < MaxCalls
    /\ last' = [op |-> "formatAnnotation",
                fragment |->
                    IF request.format = "org"
                    THEN AnnotationFormatterFormat(request.annotation,
                                                   Library[request.attachment].key)
                    ELSE MarkdownFormatterFormat(request.annotation,
                                                 Library[request.attachment].key,
                                                 Library[request.attachment].libraryID,
                                                 Library[request.attachment].contentType)]
    /\ calls' = calls + 1
    /\ UNCHANGED <<annots, shared, meta, request>>

NextFormat == FormatAnnotationCall

SpecFormat == InitFormat /\ [][NextFormat]_vars

(***************************************************************************)
(* Specification SpecPages: a caller exports the main PDF attachment,      *)
(* whose annotations carry every kind of page label and no sort index.     *)
(***************************************************************************)
InitPages ==
    /\ \E n \in 1..MaxAnnots : \E f \in [1..n -> LabelChoices] :
          annots = [att \in AnnotatedAttachments |->
                      CASE att = 3 -> [i \in 1..n |-> MkAnnotation(i, f[i], Undefined)]
                        [] att = 4 -> <<>>
                        [] OTHER -> StandaloneList]
    /\ shared \in BOOLEAN
    /\ meta = FixedMeta
    /\ \E format \in Formats : request = [item |-> 3, format |-> format, rej |-> NoReject]
    /\ last = [op |-> "none"]
    /\ calls = 0

SpecPages == InitPages /\ [][Next]_vars

(***************************************************************************)
(* Reading an export back: what a content says and what the host holds.    *)
(***************************************************************************)
Range(seq) == {seq[i] : i \in 1..Len(seq)}

RECURSIVE SumOver(_, _)
SumOver(set, f) ==
    IF set = {} THEN 0
    ELSE LET x == CHOOSE y \in set : TRUE IN f[x] + SumOver(set \ {x}, f)

\* sub occurs in seq as a run of consecutive symbols.
Contains(seq, sub) ==
    \E i \in 0..(Len(seq) - Len(sub)) : SubSeq(seq, i + 1, i + Len(sub)) = sub

\* The positions of a content where the target of an annotation link names
\* the attachment: "pdf:" in an org link, "/items/" in a markdown link.
LinkPositions(content) ==
    SelectSeq([i \in 1..Len(content) |-> i],
              LAMBDA i : content[i] \in {"pdf:", "/items/"})

\* The attachment key and the annotation key of the link at position i.
\* Org: pdf: KEY :: page ++ height ;; annot- page - ANNOT.
\* Markdown: /items/ KEY ?annotation= ANNOT, or /items/ KEY ?page= page
\* &annotation= ANNOT.
LinkAt(content, i) ==
    [attachment |-> content[i + 1],
     annotation |-> IF content[i] = "pdf:" THEN content[i + 10]
                    ELSE IF content[i + 2] = "?annotation=" THEN content[i + 3]
                    ELSE content[i + 5]]

\* The annotation fragments of a content, in the order they appear.
Fragments(content) ==
    [k \in 1..Len(LinkPositions(content)) |-> LinkAt(content, LinkPositions(content)[k])]

\* The annotation keys of the fragments that belong to an attachment.
FragmentKeysOf(content, attachment) ==
    LET own == SelectSeq(Fragments(content),
                         LAMBDA f : f.attachment = Library[attachment].key[1])
    IN  [k \in 1..Len(own) |-> own[k].annotation]

\* The annotation with the given key among those an attachment holds.
AnnotationOf(attachment, key) ==
    CHOOSE x \in Range(annots[attachment]) : x.key = <<key>>

\* The PDF/EPUB attachments an export of item is about.
EligibleAttachments(item) ==
    IF Library[item].itemType = "attachment"
       /\ Library[item].contentType \in {PdfContentType, EpubContentType}
    THEN {item}
    ELSE IF Library[item].itemType = "regular"
    THEN {id \in Range(Library[item].attachmentIDs) \cap ItemIds :
            Library[id].contentType \in {PdfContentType, EpubContentType}}
    ELSE {}

\* The number of annotations the eligible attachments of item hold.
AnnotationTotal(item) ==
    SumOver(EligibleAttachments(item), [att \in AnnotatedAttachments |-> Len(annots[att])])

\* The numeric page of the claims: the parsed label, 0 when it does not parse.
NumericPage(annotation) ==
    IF parseInt(annotation.annotationPageLabel).nan THEN 0
    ELSE parseInt(annotation.annotationPageLabel).val

\* The sort index of the claims: empty when absent.
SortIndexOf(annotation) ==
    IF annotation.annotationSortIndex = Undefined THEN <<>>
    ELSE annotation.annotationSortIndex

\* s comes strictly before t in lexicographic order.
LexLess(s, t) ==
    \E k \in 1..(Len(t)) :
        /\ \A j \in 1..(k - 1) : j <= Len(s) /\ s[j] = t[j]
        /\ \/ k = Len(s) + 1
           \/ k <= Len(s) /\ CharRank(s[k]) < CharRank(t[k])

\* a may come before b: smaller page, or equal page and sort index not greater.
InOrder(a, b) ==
    \/ NumericPage(a) < NumericPage(b)
    \/ /\ NumericPage(a) = NumericPage(b)
       /\ ~LexLess(SortIndexOf(b), SortIndexOf(a))

Returned == last.op = "generateContent" /\ last.result.kind = "ok"

(***************************************************************************)
(* Claims about Exporter.generateContent (specification Spec).             *)
(***************************************************************************)
\* C1: in the content of a returned export, the fragments of every eligible
\* attachment are exactly its annotations, each once, in ascending order of
\* numeric page and, within a page, in ascending order of sort index.
C1_FragmentsSorted ==
    Returned =>
        \A att \in EligibleAttachments(request.item) :
            LET keys == FragmentKeysOf(last.result.content, att)
            IN  /\ Len(keys) = Len(annots[att])
                /\ Range(keys) = {x.key[1] : x \in Range(annots[att])}
                /\ \A i, j \in 1..Len(keys) :
                      i < j => InOrder(AnnotationOf(att, keys[i]), AnnotationOf(att, keys[j]))

\* The example of the claim: labels "10", "2", "2" with sort indexes a, b, a
\* were delivered in that order (keys K1, K2, K3) and come out K3, K2, K1.
C1_Witness ==
    /\ Returned
    /\ request.item = 1
    /\ Len(annots[3]) = 3
    /\ AnnotationOf(3, "K1").annotationPageLabel = <<"1", "0">>
    /\ AnnotationOf(3, "K1").annotationSortIndex = <<"a">>
    /\ AnnotationOf(3, "K2").annotationPageLabel = <<"2">>
    /\ AnnotationOf(3, "K2").annotationSortIndex = <<"b">>
    /\ AnnotationOf(3, "K3").annotationPageLabel = <<"2">>
    /\ AnnotationOf(3, "K3").annotationSortIndex = <<"a">>
    /\ FragmentKeysOf(last.result.content, 3) = <<"K3", "K2", "K1">>

\* C2: a call during which no fetch rejects does not throw; a call that
\* returns gives null exactly when the item has no eligible attachment or its
\* eligible attachments hold no annotation, and otherwise a result whose
\* annotationCount is at least 1.
C2_NullExactlyWhenNoContent ==
    last.op = "generateContent" =>
        /\ request.rej = NoReject => last.result.kind # "rejected"
        /\ last.result.kind # "rejected" =>
              /\ last.result.kind \in {"null", "ok"}
              /\ last.result.kind = "null" <=>
                    \/ EligibleAttachments(request.item) = {}
                    \/ AnnotationTotal(request.item) = 0
              /\ last.result.kind = "ok" => last.result.annotationCount >= 1

\* A regular item with a PDF and an EPUB, neither annotated, gave null.
C2_Witness ==
    /\ last.op = "generateContent"
    /\ request.item = 1
    /\ request.rej = NoReject
    /\ EligibleAttachments(1) = {3, 4}
    /\ AnnotationTotal(1) = 0
    /\ last.result.kind = "null"

\* C5: a call leaves the annotation list of every attachment, and every
\* other input, as it was.
C5_InputsUnchanged == [][annots' = annots /\ meta' = meta]_vars

\* C8: the annotationCount of a returned export is the number of annotations
\* its eligible attachments hold, and the number of fragments in the content;
\* the content ends with the newline that follows the last fragment.
C8_CountIsSumAndFragments ==
    Returned =>
        /\ last.result.annotationCount = AnnotationTotal(request.item)
        /\ last.result.annotationCount = Len(Fragments(last.result.content))
        /\ last.result.content[Len(last.result.content)] = "\n"

\* Item 1 was exported with annotations on both of its attachments.
C8_Witness ==
    /\ Returned
    /\ request.item = 1
    /\ Len(annots[3]) = 3
    /\ Len(annots[4]) = 2
    /\ last.result.annotationCount = 5

\* C9: the call made again, with the item untouched by the caller in between,
\* returns what it returned before.
C9_RepeatedCallSameResult ==
    [][(last.op = "generateContent" /\ last.result.kind # "rejected"
        /\ last'.result.kind # "rejected")
       => last'.result = last.result]_vars

\* The second call ran on an array the first call had reordered.
C9_Witness ==
    /\ Returned
    /\ calls = 2
    /\ shared
    /\ request.item = 1
    /\ Len(annots[3]) = 3
    /\ annots[3][1].key # <<"K1">>

(***************************************************************************)
(* Claims about Exporter.generateBatchContent (specification SpecBatch).   *)
(***************************************************************************)
BatchReturned == last.op = "generateBatchContent" /\ last.result.kind = "ok"

\* An export of item gives a result: it has an eligible attachment and its
\* eligible attachments hold at least one annotation.
Yields(item) == EligibleAttachments(item) # {} /\ AnnotationTotal(item) > 0

\* The positions of the batch input whose item gives a result, in order.
YieldingPositions ==
    SelectSeq([k \in 1..Len(request.items) |-> k], LAMBDA k : Yields(request.items[k]))

\* citekeys[k] of the call (Undefined when the array is absent or too short).
RequestedCitekey(k) ==
    IF request.citekeys.given /\ k \in DOMAIN request.citekeys.keys
    THEN request.citekeys.keys[k]
    ELSE Undefined

\* C3: the items array of a batch result holds, in input order, one record
\* for each input item that gives a result, and the record of the item at
\* input position k carries citekeys[k] and that item's annotation count.
C3_RecordsFollowInputPositions ==
    BatchReturned =>
        /\ Len(last.result.items) = Len(YieldingPositions)
        /\ \A j \in 1..Len(YieldingPositions) :
              /\ last.result.items[j].citekey = RequestedCitekey(YieldingPositions[j])
              /\ last.result.items[j].annotationCount
                    = AnnotationTotal(request.items[YieldingPositions[j]])

\* The example of the claim: [A, B, C] with B giving null and citekeys
\* [k1, k2, k3] give two records, carrying k1 and k3.
C3_Witness ==
    /\ BatchReturned
    /\ request.items = <<1, 2, 8>>
    /\ request.citekeys = [given |-> TRUE, keys |-> <<<<"k1">>, <<"k2">>, <<"k3">>>>]
    /\ Len(last.result.items) = 2
    /\ last.result.items[1].citekey = <<"k1">>
    /\ last.result.items[2].citekey = <<"k3">>

\* The content generateContent gives for the item at input position k.
BlockOf(k) ==
    generateContent(annots, shared, meta, request.items[k], request.format,
                    NoReject).result.content

\* C4: the content of a batch result is the blocks of the emitted items, one
\* separator between successive blocks and none after the last block.
C4_OneSeparatorBetweenBlocks ==
    BatchReturned =>
        last.result.content
            = Join([j \in 1..Len(YieldingPositions) |-> BlockOf(YieldingPositions[j])],
                   <<"\n">>)

\* C7: in a batch result itemCount is the length of items, totalAnnotations
\* is the sum of the records' annotationCount and every record counts at
\* least one annotation; a batch that returns gives null exactly when no
\* input item gives a result.
C7_BatchTotals ==
    (last.op = "generateBatchContent" /\ last.result.kind # "rejected") =>
        /\ last.result.kind = "null" <=> Len(YieldingPositions) = 0
        /\ last.result.kind = "ok" =>
              /\ last.result.itemCount = Len(last.result.items)
              /\ last.result.totalAnnotations
                    = SumOver(DOMAIN last.result.items,
                              [j \in DOMAIN last.result.items |->
                                  last.result.items[j].annotationCount])
              /\ \A j \in DOMAIN last.result.items :
                    last.result.items[j].annotationCount >= 1

\* Two items were emitted, with 2 and 3 annotations.
C7_Witness ==
    /\ BatchReturned
    /\ request.items = <<3, 2, 8>>
    /\ last.result.itemCount = 2
    /\ last.result.totalAnnotations = 5

(***************************************************************************)
(* Claims about the metadata formatters (specification SpecMeta).          *)
(***************************************************************************)
Formatted == last.op = "format"

\* The text the header shows for a field once its accessor has returned v.
\* The inputs hold no backslash and no double quote, so a quoted YAML value
\* is v itself.
ShownAs(name, v) ==
    IF request.format = "org"
    THEN CASE name = "title" -> <<"* ">> \o v \o <<"\n">>
           [] name = "date" -> <<":DATE: ">> \o v \o <<"\n">>
           [] name = "DOI" -> <<":DOI: ">> \o v \o <<"\n">>
           [] name = "url" -> <<":URL: ">> \o v \o <<"\n">>
           [] name = "abstractNote" -> <<"** Abstract\n">> \o v \o <<"\n\n">>
           [] name = "publicationTitle" -> <<":PUBLICATION: ">> \o v \o <<"\n">>
           [] name = "creators" -> <<":AUTHOR: ">> \o v \o <<"\n">>
           [] OTHER -> <<":CUSTOM_ID: ">> \o v \o <<"\n">>
    ELSE CASE name = "title" -> <<"# ">> \o v \o <<"\n\n">>
           [] name = "date" -> <<"date: ", "\"">> \o v \o <<"\"\n">>
           [] name = "DOI" -> <<"doi: ", "\"">> \o v \o <<"\"\n">>
           [] name = "url" -> <<"url: ", "\"">> \o v \o <<"\"\n">>
           [] name = "abstractNote" -> <<"## Abstract\n\n">> \o v \o <<"\n\n">>
           [] name = "publicationTitle" -> <<"publication: ", "\"">> \o v \o <<"\"\n">>
           [] name = "creators" -> <<"author: ", "\"">> \o v \o <<"\"\n">>
           [] OTHER -> <<"citekey: ", "\"">> \o v \o <<"\"\n">>

\* What a field of item m has to show: the value its accessor returned; for
\* the creators the author string, for extra the citation key in it.
ValueToShow(m, name) ==
    CASE name = "creators" -> <<"L", ", ", "F", "; ", "O", "r", "g">>
      [] name = "extra" -> IF m.extra.value = TwoKeysExtra THEN <<"k", "1">>
                           ELSE <<"a", "b">>
      [] OTHER -> m[name].value

\* The accessor of the field returned something to show.
Readable(m, name) == ~m[name].throws /\ m[name].value # <<>>

\* C6: every field whose own accessor returned a value is in the header,
\* whichever other accessor threw.
C6_FieldsGuardedSeparately ==
    Formatted =>
        \A name \in {"title", "date", "DOI", "url", "abstractNote", "publicationTitle",
                     "creators", "extra"} :
            Readable(meta[request.item], name) =>
                Contains(last.header, ShownAs(name, ValueToShow(meta[request.item], name)))

\* The title the heading has to carry.
HeadingTitle(m) == IF Readable(m, "title") THEN m.title.value ELSE <<"Untitled">>

\* C10: every call of a metadata formatter returns a header; the header
\* carries the title heading ("Untitled" when the title is empty or cannot
\* be read) and ends with the Annotations sub-heading.
C10_HeaderHasTitleAndAnnotations ==
    /\ calls > 0 => Formatted
    /\ Formatted =>
          /\ Contains(last.header, ShownAs("title", HeadingTitle(meta[request.item])))
          /\ last.header[Len(last.header)]
                = (IF request.format = "org" THEN "** Annotations\n\n"
                   ELSE "## Annotations\n\n")

\* The org formatter ran on an item whose title accessor throws and whose
\* other fields are all empty.
C10_Witness ==
    /\ Formatted
    /\ request.format = "org"
    /\ meta[request.item].title.throws
    /\ \A name \in {"date", "DOI", "url", "abstractNote", "publicationTitle", "extra"} :
          meta[request.item][name] = Got(<<>>)
    /\ meta[request.item].creators.value = <<>>
    /\ Contains(last.header, <<"* ", "Untitled", "\n">>)

(***************************************************************************)
(* Reading a header back: the value a header shows for a field.            *)
(***************************************************************************)
\* What a header shows for a field it has no line for.
Absent == <<"<absent>">>

\* The first position of a symbol in a text (0 when it does not occur).
IndexOf(seq, sym) ==
    IF \E i \in 1..Len(seq) : seq[i] = sym
    THEN CHOOSE i \in 1..Len(seq) : seq[i] = sym /\ \A j \in 1..(i - 1) : seq[j] # sym
    ELSE 0

RECURSIVE TakeUntil(_, _, _)
\* The symbols from position i up to the first occurrence of the symbol end.
TakeUntil(seq, i, end) ==
    IF i > Len(seq) \/ seq[i] = end THEN <<>>
    ELSE <<seq[i]>> \o TakeUntil(seq, i + 1, end)

RECURSIVE Unescape(_)
\* The string a double-quoted YAML scalar stands for: a backslash makes the
\* character after it literal.
Unescape(s) ==
    IF s = <<>> THEN <<>>
    ELSE IF Head(s) = "\\" /\ Len(s) >= 2 THEN <<s[2]>> \o Unescape(SubSeq(s, 3, Len(s)))
    ELSE <<Head(s)>> \o Unescape(Tail(s))

\* The value of the property drawer line that starts with marker.
OrgField(header, marker) ==
    IF IndexOf(header, marker) = 0 THEN Absent
    ELSE TakeUntil(header, IndexOf(header, marker) + 1, "\n")

\* The text between the quotes of the front-matter line that starts with
\* marker, as written.
MdFieldText(header, marker) ==
    IF IndexOf(header, marker) = 0 THEN Absent
    ELSE TakeUntil(header, IndexOf(header, marker) + 2, "\"\n")

\* The value of the front-matter line that starts with marker.
MdField(header, marker) ==
    IF IndexOf(header, marker) = 0 THEN Absent
    ELSE Unescape(MdFieldText(header, marker))

\* The title of the heading line of a header.
HeadingOf(header, format) ==
    IF format = "org" THEN OrgField(header, "* ")
    ELSE IF IndexOf(header, "# ") = 0 THEN Absent
    ELSE TakeUntil(header, IndexOf(header, "# ") + 1, "\n\n")

\* The fields of the two headers, by the marker of their lines.
FieldMarkers ==
    {<<":AUTHOR: ", "author: ">>, <<":DATE: ", "date: ">>,
     <<":PUBLICATION: ", "publication: ">>, <<":DOI: ", "doi: ">>, <<":URL: ", "url: ">>,
     <<":ZOTERO_KEY: ", "zotero_key: ">>, <<":CUSTOM_ID: ", "citekey: ">>}

\* The two headers of the item the call was about: the one the call returned
\* and the one the formatter of the other dialect gives for the same item.
OrgHeader ==
    IF request.format = "org" THEN last.header
    ELSE MetadataFormatterFormat(meta[request.item])

MdHeader ==
    IF request.format = "md" THEN last.header
    ELSE MarkdownMetadataFormatterFormat(meta[request.item])

\* The citation key of the extra fields the items carry: the key of the first
\* line that matches, trimmed.
CitekeyIn(extra) ==
    IF extra = CitationKeyExtra THEN <<"a", "b">>
    ELSE IF extra = TwoKeysExtra THEN <<"k", "1">>
    ELSE Absent

\* C11: the org header and the markdown header of an item show the same
\* heading title and, for author, date, publication, DOI, URL, item key and
\* citekey, a line in one exactly when there is a line in the other, with the
\* same value; a front-matter title is the heading title; a citekey shown is
\* the trimmed key of the first matching line of extra.
C11_SameFieldsInBothHeaders ==
    Formatted =>
        /\ HeadingOf(OrgHeader, "org") = HeadingOf(MdHeader, "md")
        /\ HeadingOf(OrgHeader, "org") # Absent
        /\ MdField(MdHeader, "title: ") \in {Absent, HeadingOf(OrgHeader, "org")}
        /\ \A f \in FieldMarkers : OrgField(OrgHeader, f[1]) = MdField(MdHeader, f[2])
        /\ OrgField(OrgHeader, ":CUSTOM_ID: ")
              \in {Absent, CitekeyIn(meta[request.item].extra.value)}

\* Both formatters ran to the end on an item with two citation-key lines.
C11_Witness ==
    /\ Formatted
    /\ request.format = "md"
    /\ meta[request.item].extra.value = TwoKeysExtra
    /\ MdField(MdHeader, "author: ") = <<"L", ", ", "F", "; ", "O", "r", "g">>
    /\ OrgField(OrgHeader, ":AUTHOR: ") = MdField(MdHeader, "author: ")
    /\ MdField(MdHeader, "citekey: ") = <<"k", "1">>
    /\ OrgField(OrgHeader, ":CUSTOM_ID: ") = <<"k", "1">>
    /\ MdField(MdHeader, "zotero_key: ") = <<"ITEM1">>

(***************************************************************************)
(* Claims about the annotation formatters (specification SpecFormat).      *)
(***************************************************************************)
FormattedAnnotation == last.op = "formatAnnotation"

\* The offset an org link carries: the text between "++" and ";;".
OffsetOf(fragment) == fragment[IndexOf(fragment, "++") + 1]

\* The numbers from 0.00 to 100.00 written with two decimals.
PercentStrings ==
    {ToString(i) \o "." \o Digits[d + 1] \o Digits[e + 1] :
        i \in 0..99, d \in 0..9, e \in 0..9}
    \cup {"100.00"}

\* C12: the offset in the link of every org fragment is a number between
\* 0.00 and 100.00, whatever the position of the annotation.
C12_OffsetWithinPercentRange ==
    (FormattedAnnotation /\ request.format = "org") =>
        OffsetOf(last.fragment) \in PercentStrings

\* The offset the rule of C13 gives for the y coordinates drawn, worked out
\* by hand: y * 100 up to y = 1, min(y / 792 * 100, 100) above, two decimals.
OffsetByRule ==
    [y \in SomeYs |->
        CASE y = -50000 -> "-500.00"
          [] y = 0 -> "0.00"
          [] y = 2500 -> "25.00"
          [] y = 10000 -> "100.00"
          [] y = 10001 -> "0.13"
          [] y = 1000000 -> "12.63"
          [] y = 3960000 -> "50.00"
          [] y = 7920000 -> "100.00"
          [] OTHER -> "100.00"]

\* The position of the annotation gives a first rectangle of four numbers.
HasFirstRect(position) ==
    /\ position.json = "object"
    /\ position.hasRects
    /\ Len(position.rects) > 0
    /\ Len(position.rects[1]) >= 4

\* C13: the offset in an org link follows from the y coordinate of the first
\* rectangle alone by the rule above, and is 0.00 when the position gives no
\* first rectangle of four numbers or is not JSON.
C13_OffsetFromFirstRectangle ==
    (FormattedAnnotation /\ request.format = "org") =>
        OffsetOf(last.fragment)
            = (IF HasFirstRect(request.annotation.annotationPosition)
               THEN OffsetByRule[request.annotation.annotationPosition.rects[1][2]]
               ELSE "0.00")

\* An annotation whose first rectangle is at y = 396 and whose second
\* rectangle is at y = 0.5 got the offset 50.00.
C13_Witness ==
    /\ FormattedAnnotation
    /\ request.format = "org"
    /\ request.annotation.annotationPosition = RectsAt(3960000)
    /\ OffsetOf(last.fragment) = "50.00"

(***************************************************************************)
(* Claims about page labels (specification SpecPages).                     *)
(***************************************************************************)
\* The page number the link at position i of a content shows.
\* Org: pdf: KEY :: page.  Markdown: /items/ KEY ?page= page.
PageShownAt(content, i) == content[i + 3]

\* The labels that read as a number: parseInt finds digits at their start.
NumberedLabels == {<<"0">>, <<"-", "1">>, <<"5">>, <<"1", "2", "a">>}

\* The annotation of the main PDF that the k-th fragment of a content is of.
AnnotationOfFragment(content, k) == AnnotationOf(3, Fragments(content)[k].annotation)

\* C14: no link of an export shows page 0; the link of an annotation whose
\* label is missing or does not read as a number shows page 1; and every
\* annotation without a usable label comes before every annotation with one.
C14_PageOneInLinksUnlabelledFirst ==
    Returned =>
        /\ \A k \in 1..Len(LinkPositions(last.result.content)) :
              /\ PageShownAt(last.result.content, LinkPositions(last.result.content)[k]) # "0"
              /\ AnnotationOfFragment(last.result.content, k).annotationPageLabel
                    \notin NumberedLabels
                 => PageShownAt(last.result.content,
                                LinkPositions(last.result.content)[k]) = "1"
        /\ \A i, j \in 1..Len(Fragments(last.result.content)) :
              (/\ AnnotationOfFragment(last.result.content, i).annotationPageLabel
                     \in NumberedLabels
               /\ AnnotationOfFragment(last.result.content, j).annotationPageLabel
                     \notin NumberedLabels)
              => j < i

(***************************************************************************)
(* Claims about the blocks of one annotation (specification SpecFormat).   *)
(***************************************************************************)
\* What trimming leaves of the texts and comments handed to the formatters.
TrimmedOf(s) ==
    CASE s = <<" ", "h", "i", "\n", "x", " ">> -> <<"h", "i", "\n", "x">>
      [] s = <<"h", "i">> -> <<"h", "i">>
      [] s = <<" ", "o", "k", " ">> -> <<"o", "k">>
      [] OTHER -> <<>>

RECURSIVE PrefixEachLine(_, _)
\* A text with the prefix put before each of its lines.
PrefixEachLine(text, prefix) ==
    IF IndexOf(text, "\n") = 0 THEN <<prefix>> \o text
    ELSE <<prefix>> \o SubSeq(text, 1, IndexOf(text, "\n"))
         \o PrefixEachLine(SubSeq(text, IndexOf(text, "\n") + 1, Len(text)), prefix)

\* The link line of the requested annotation in the requested dialect.
RequestedLink ==
    IF request.format = "org"
    THEN OrgPdfToolsLinkGenerate(Library[request.attachment].key, request.annotation)
    ELSE generateZoteroLink(Library[request.attachment].key,
                            Library[request.attachment].libraryID,
                            request.annotation,
                            Library[request.attachment].contentType)

HasTags(annot) == ~annot.noTags /\ annot.tags # <<>>

\* The optional end of a block: a blank line and the trimmed comment when
\* something is left of it, then the tag line when there are tags, in
\* markdown after a blank line.
ExpectedCommentAndTags ==
    (IF TrimmedOf(request.annotation.annotationComment) # <<>>
     THEN <<"\n">> \o TrimmedOf(request.annotation.annotationComment) \o <<"\n">>
     ELSE <<>>)
    \o (IF ~HasTags(request.annotation) THEN <<>>
        ELSE IF request.format = "org"
             THEN OrgFormatTags(request.annotation) \o <<"\n">>
             ELSE <<"\n">> \o MdFormatTags(request.annotation) \o <<"\n">>)

\* C15: a highlight or underline is the link line, the quoted block with the
\* trimmed text, a blank line and the trimmed comment only when the comment
\* is not empty after trimming, and a tag line only when there are tags.
\* Org: #+begin_quote, text, #+end_quote directly after the link, the tag
\* line directly after the comment.  Markdown: a blank line after the link,
\* each text line prefixed with "> ", a blank line before the tag line.
C15_HighlightStructure ==
    (FormattedAnnotation /\ request.annotation.annotationType \in {"highlight", "underline"})
    => last.fragment =
          IF request.format = "org"
          THEN RequestedLink \o <<"\n">>
               \o <<"#+begin_quote\n">>
               \o TrimmedOf(request.annotation.annotationText) \o <<"\n">>
               \o <<"#+end_quote\n">>
               \o ExpectedCommentAndTags
          ELSE RequestedLink \o <<"\n\n">>
               \o PrefixEachLine(TrimmedOf(request.annotation.annotationText), "> ")
               \o <<"\n">>
               \o ExpectedCommentAndTags

C15_Witness ==
    /\ FormattedAnnotation
    /\ request.annotation.annotationType = "underline"
    /\ request.format = "md"
    /\ request.annotation.annotationText = <<" ", "h", "i", "\n", "x", " ">>
    /\ request.annotation.annotationComment = <<" ", "o", "k", " ">>
    /\ Len(request.annotation.tags) = 2
    /\ \E i \in 1..(Len(last.fragment) - 8) :
          SubSeq(last.fragment, i, i + 8)
              = <<"\n\n", "> ", "h", "i", "\n", "> ", "x", "\n", "\n">>

\* The words a placeholder opens with, by kind of annotation.
PlaceholderWords(type) ==
    IF type = "image" THEN "[Image annotation on page "
    ELSE "[Ink/drawing annotation on page "

\* C16: an image or ink annotation on page P is the link line, then the
\* placeholder "[Image annotation on page P]" or "[Ink/drawing annotation on
\* page P]" inside the markup of the dialect (an example block in org,
\* emphasis in markdown), then the trimmed comment paragraph only when the
\* comment is not empty, then the tag line only when there are tags.
C16_ImageInkPlaceholder ==
    (/\ FormattedAnnotation
     /\ request.annotation.annotationType \in {"image", "ink"}
     /\ request.annotation.annotationPageLabel # Undefined)
    => last.fragment =
          IF request.format = "org"
          THEN RequestedLink \o <<"\n">>
               \o <<"#+begin_example\n">>
               \o <<PlaceholderWords(request.annotation.annotationType)>>
               \o request.annotation.annotationPageLabel \o <<"]\n">>
               \o <<"#+end_example\n">>
               \o ExpectedCommentAndTags
          ELSE RequestedLink \o <<"\n\n">>
               \o <<"*" \o PlaceholderWords(request.annotation.annotationType)>>
               \o request.annotation.annotationPageLabel \o <<"]*\n">>
               \o ExpectedCommentAndTags

\* The fragment the requested formatter makes of an annotation.
FragmentFor(annotation) ==
    IF request.format = "org"
    THEN AnnotationFormatterFormat(annotation, Library[request.attachment].key)
    ELSE MarkdownFormatterFormat(annotation,
                                 Library[request.attachment].key,
                                 Library[request.attachment].libraryID,
                                 Library[request.attachment].contentType)

\* An annotation with the empty string, or the empty list, in the place of
\* each optional field it lacks.
AbsentAsEmpty(annotation) ==
    [annotation EXCEPT
        !.annotationText = IF @ = Undefined THEN <<>> ELSE @,
        !.annotationComment = IF @ = Undefined THEN <<>> ELSE @,
        !.annotationPageLabel = IF @ = Undefined THEN <<>> ELSE @,
        !.noTags = FALSE]

\* C17: the formatters return a fragment for every annotation of every kind,
\* and an absent text, comment, page label or tag list contributes what the
\* empty string contributes: the fragment is the fragment of the annotation
\* with the absent fields empty, and holds no word standing for a missing
\* value.
C17_AbsentFieldsContributeNothing ==
    FormattedAnnotation
    => /\ last.fragment = FragmentFor(AbsentAsEmpty(request.annotation))
       /\ IndexOf(last.fragment, "undefined") = 0

(***************************************************************************)
(* Claims about tag lines (specification SpecFormat).                      *)
(***************************************************************************)
RECURSIVE TagText(_, _, _, _)
\* The characters of a tag from position i on, as a tag line shows them: one
\* "_" for each run of whitespace, and the character `bad` shown as `shown`.
TagText(tag, i, bad, shown) ==
    IF i > Len(tag) THEN <<>>
    ELSE (IF tag[i] \in Whitespace
          THEN IF i > 1 /\ tag[i - 1] \in Whitespace THEN <<>> ELSE <<"_">>
          ELSE IF tag[i] = bad THEN shown ELSE <<tag[i]>>)
         \o TagText(tag, i + 1, bad, shown)

RECURSIVE OrgTagLine(_, _)
\* ":" before each tag from the i-th on, and ":" at the end.
OrgTagLine(tags, i) ==
    IF i > Len(tags) THEN <<":">>
    ELSE <<":">> \o TagText(tags[i], 1, ":", <<"-">>) \o OrgTagLine(tags, i + 1)

RECURSIVE MdTagLine(_, _)
\* "#" and the tag for each tag from the i-th on, one space between two.
MdTagLine(tags, i) ==
    IF i > Len(tags) THEN <<>>
    ELSE (IF i > 1 THEN <<" ">> ELSE <<>>)
         \o <<"#">> \o TagText(tags[i], 1, "#", <<>>) \o MdTagLine(tags, i + 1)

\* The end of a text: its last n symbols.
Ending(text, n) == SubSeq(text, Len(text) - n + 1, Len(text))

EndsWith(text, end) == Len(text) >= Len(end) /\ Ending(text, Len(end)) = end

\* The kinds of annotation whose block carries the tag line.
TaggedKinds == {"highlight", "underline", "note", "image", "ink"}

\* C18: the org tag line is ":" + the tags in the given order joined by ":"
\* + ":", each run of whitespace in a tag shown as "_" and each ":" as "-";
\* the markdown tag line is the tags in the given order joined by one space,
\* each "#" and the tag with whitespace runs shown as "_" and every "#"
\* removed; no tag line is written when the tag list is empty or absent.
C18_TagLines ==
    (FormattedAnnotation /\ request.annotation.annotationType \in TaggedKinds)
    => IF HasTags(request.annotation)
       THEN IF request.format = "org"
            THEN /\ EndsWith(last.fragment,
                             OrgTagLine(request.annotation.tags, 1) \o <<"\n">>)
                 /\ last.fragment[Len(last.fragment)
                                  - Len(OrgTagLine(request.annotation.tags, 1)) - 1]
                       \in {"\n", "#+end_quote\n", "#+end_comment\n", "#+end_example\n"}
            ELSE EndsWith(last.fragment,
                          <<"\n">> \o MdTagLine(request.annotation.tags, 1) \o <<"\n">>)
       ELSE IndexOf(last.fragment, IF request.format = "org" THEN ":" ELSE "#") = 0

C18_Witness ==
    /\ FormattedAnnotation
    /\ request.format = "org"
    /\ request.annotation.annotationType = "note"
    /\ EndsWith(last.fragment,
                <<"#+end_comment\n", ":", "m", "_", "l", "_", "x", ":",
                  "a", "-", "b", "#", "c", ":", "\n">>)

(***************************************************************************)
(* Claims about the markdown link (specification SpecFormat).              *)
(***************************************************************************)
\* The page number N a page label stands for in a PDF link.
PageNumberOf(label) ==
    CASE label = <<"-", "1">> -> "-1"
      [] label = <<"5">> -> "5"
      [] label = <<"1", "2", "a">> -> "12"
      [] OTHER -> "1"

\* LIBRARYPATH: "library" for the personal library, "groups/<libraryID>" for
\* every other library.
LibraryPathOf(attachment) ==
    IF Library[attachment].libraryID = 1 THEN <<"library">>
    ELSE <<"groups/", ToString(Library[attachment].libraryID)>>

\* The link the claim describes for the requested annotation.
DescribedLink ==
    IF Library[request.attachment].contentType = EpubContentType
    THEN <<"[">>
         \o (IF request.annotation.annotationPageLabel \in {Undefined, <<>>}
             THEN <<"Location">> ELSE request.annotation.annotationPageLabel)
         \o <<"](", "zotero://open-epub/">> \o LibraryPathOf(request.attachment)
         \o <<"/items/">> \o Library[request.attachment].key
         \o <<"?annotation=">> \o request.annotation.key \o <<")">>
    ELSE <<"[Page ", PageNumberOf(request.annotation.annotationPageLabel),
           "](", "zotero://open-pdf/">> \o LibraryPathOf(request.attachment)
         \o <<"/items/">> \o Library[request.attachment].key
         \o <<"?page=", PageNumberOf(request.annotation.annotationPageLabel),
              "&annotation=">> \o request.annotation.key \o <<")">>

\* C19: the markdown link of a PDF attachment is
\* [Page N](zotero://open-pdf/LIBRARYPATH/items/ATTACHMENTKEY?page=N&annotation=ANNOTKEY),
\* that of an EPUB attachment is
\* [LABEL](zotero://open-epub/LIBRARYPATH/items/ATTACHMENTKEY?annotation=ANNOTKEY)
\* without page parameter, LABEL being the raw page label or "Location" when
\* the label is empty, and LIBRARYPATH being "library" for the personal
\* library and "groups/<libraryID>" for every other library.
C19_ZoteroLinkShape ==
    (FormattedAnnotation /\ request.format = "md")
    => /\ Len(last.fragment) > Len(DescribedLink)
       /\ SubSeq(last.fragment, 1, Len(DescribedLink) + 1) = DescribedLink \o <<"\n\n">>
       /\ Library[request.attachment].contentType = EpubContentType
          => IndexOf(last.fragment, "?page=") = 0

C19_Witness ==
    /\ FormattedAnnotation
    /\ request.format = "md"
    /\ request.attachment = 8
    /\ SubSeq(last.fragment, 1, 13)
          = <<"[Page ", "12", "](", "zotero://open-pdf/", "groups/", "2", "/items/",
              "ATT8", "?page=", "12", "&annotation=", "K1", ")">>

(***************************************************************************)
(* Claims about the front matter (specification SpecYaml).                 *)
(***************************************************************************)
\* The lines of the front matter and the extracted field each one shows.
YamlLines ==
    {<<"title: ", "title">>, <<"author: ", "authors">>, <<"date: ", "date">>,
     <<"publication: ", "publication">>, <<"doi: ", "doi">>, <<"url: ", "url">>,
     <<"zotero_key: ", "zoteroKey">>, <<"citekey: ", "citekey">>}

RECURSIVE NoBareQuote(_)
\* No double quote of a quoted text stands without a backslash before it.
NoBareQuote(text) ==
    IF text = <<>> THEN TRUE
    ELSE IF Head(text) = "\\" THEN Len(text) >= 2 /\ NoBareQuote(SubSeq(text, 3, Len(text)))
    ELSE Head(text) # "\"" /\ NoBareQuote(Tail(text))

\* C20: every value of the front matter (title, author, date, publication,
\* doi, url, zotero_key, citekey) is written with each backslash and each
\* double quote of the source string escaped: no value holds a double quote
\* without a backslash before it, and reading the escapes back gives the
\* source string.
C20_FrontMatterValuesEscaped ==
    (Formatted /\ request.format = "md")
    => \A line \in YamlLines :
          MdFieldText(last.header, line[1]) # Absent
          => /\ NoBareQuote(MdFieldText(last.header, line[1]))
             /\ Unescape(MdFieldText(last.header, line[1]))
                   = MdExtractFields(meta[request.item])[line[2]]

(***************************************************************************)
(* Claims about the layout of a single export (specification Spec).        *)
(***************************************************************************)
\* The item a header is to be derived from: the input when it is a regular
\* item, otherwise its immediate parent; NoItem when there is none.
HeaderOwner(item) ==
    IF Library[item].itemType = "regular" THEN item
    ELSE IF Library[item].parentItemID \in ItemIds THEN Library[item].parentItemID
    ELSE NoItem

\* How often a symbol of the set occurs in a text.
Count(text, symbols) == Cardinality({i \in 1..Len(text) : text[i] \in symbols})

\* The symbols only a header holds: the opening of the title heading or of
\* the front matter, the item key line, the Annotations sub-heading.
HeaderOpenings == {"* ", "---\n"}

KeyLines == {":ZOTERO_KEY: ", "zotero_key: "}

AnnotationsHeadings == {"** Annotations\n\n", "## Annotations\n\n"}

\* The symbols an annotation link opens with.
LinkOpenings == {"[[", "[Page ", "["}

\* The key the header of a content shows.
KeyShown(content) ==
    IF Count(content, {":ZOTERO_KEY: "}) > 0
    THEN content[IndexOf(content, ":ZOTERO_KEY: ") + 1]
    ELSE content[IndexOf(content, "zotero_key: ") + 2]

\* C21: a returned export holds the metadata header exactly once, at its
\* start, whatever the number of eligible attachments; the header is that of
\* the input when the input is a regular item and that of its immediate
\* parent otherwise; for an attachment without a resolvable parent the
\* content holds no header and starts with the first annotation fragment.
C21_HeaderOnceAtStart ==
    Returned =>
        IF HeaderOwner(request.item) = NoItem
        THEN /\ Count(last.result.content,
                      HeaderOpenings \cup KeyLines \cup AnnotationsHeadings) = 0
             /\ last.result.content[1] \in LinkOpenings
        ELSE /\ last.result.content[1] \in HeaderOpenings
             /\ Count(last.result.content, HeaderOpenings) = 1
             /\ Count(last.result.content, KeyLines) = 1
             /\ Count(last.result.content, AnnotationsHeadings) = 1
             /\ KeyShown(last.result.content) = Library[HeaderOwner(request.item)].key[1]
             /\ \A i \in 1..Len(last.result.content) :
                   last.result.content[i] \in AnnotationsHeadings
                   => /\ last.result.content[i + 1] \in LinkOpenings
                      /\ \A j \in 1..(i - 1) : last.result.content[j] \notin LinkOpenings

\* The export of the regular item with an annotated PDF and an annotated
\* EPUB holds one header before the fragments of both.
C21_Witness ==
    /\ Returned
    /\ request.item = 1
    /\ FragmentKeysOf(last.result.content, 3) # <<>>
    /\ FragmentKeysOf(last.result.content, 4) # <<>>
    /\ Count(last.result.content, AnnotationsHeadings) = 1

\* The attachments an export takes annotations from, in order: the input
\* when it is a PDF or EPUB attachment, otherwise the PDF and EPUB children
\* of a regular item as the item enumerates them.
SourceAttachments(item) ==
    IF Library[item].itemType = "attachment"
    THEN IF Library[item].contentType \in {PdfContentType, EpubContentType}
         THEN <<item>> ELSE <<>>
    ELSE IF Library[item].itemType = "regular"
    THEN SelectSeq(Library[item].attachmentIDs,
                   LAMBDA id : /\ id \in ItemIds
                               /\ Library[id].contentType
                                     \in {PdfContentType, EpubContentType})
    ELSE <<>>

RECURSIVE KeysInTurn(_)
\* The key of each attachment of a list, once per annotation it holds.
KeysInTurn(attachments) ==
    IF attachments = <<>> THEN <<>>
    ELSE [k \in 1..Len(annots[Head(attachments)]) |-> Library[Head(attachments)].key[1]]
         \o KeysInTurn(Tail(attachments))

\* C22: an export takes its annotations from the input itself when that is a
\* PDF or EPUB attachment, and otherwise from the PDF and EPUB children of a
\* regular item in enumeration order; an attachment without annotations
\* contributes nothing and the attachments after it are still processed.
C22_AttachmentsInOrder ==
    (last.op = "generateContent" /\ last.result.kind # "rejected")
    => /\ Returned =>
             [k \in 1..Len(Fragments(last.result.content)) |->
                 Fragments(last.result.content)[k].attachment]
                = KeysInTurn(SourceAttachments(request.item))
       /\ KeysInTurn(SourceAttachments(request.item)) # <<>> => Returned

\* The regular item whose PDF holds no annotation and whose EPUB holds two
\* gave the two fragments of the EPUB.
C22_Witness ==
    /\ Returned
    /\ request.item = 1
    /\ annots[3] = <<>>
    /\ Len(annots[4]) = 2
    /\ Len(FragmentKeysOf(last.result.content, 4)) = 2

(***************************************************************************)
(* Claims about rejected fetches (specification SpecExport).               *)
(***************************************************************************)
\* The export of item asks the host for the item whose fetch rejects: a
\* regular item for each of its attachments, a PDF or EPUB attachment for
\* its parent.
Fetches(item) ==
    /\ request.rej # NoReject
    /\ \/ /\ Library[item].itemType = "regular"
          /\ request.rej \in Range(Library[item].attachmentIDs)
       \/ /\ Library[item].itemType = "attachment"
          /\ Library[item].contentType \in {PdfContentType, EpubContentType}
          /\ Library[item].parentItemID = request.rej

\* The positions of the input whose export meets the rejecting fetch.
FailingPositions == {k \in 1..Len(request.items) : Fetches(request.items[k])}

\* The positions before the first failing one (all of them when none fails).
PositionsBeforeFailure ==
    {k \in 1..Len(request.items) : \A f \in FailingPositions : k < f}

\* C23: a fetch that rejects during generateContent reaches the caller: the
\* batch rejects as a whole, without result, even when earlier items had
\* given content, and exportItems rejects having written files for no item
\* at or after the failing one; when no fetch rejects neither call rejects,
\* and exportItems writes the file of every item before the failing one that
\* gives content and whose dialog was not dismissed.
C23_RejectionPropagates ==
    /\ last.op = "generateBatchContent"
       => /\ last.result.kind = "rejected" <=> FailingPositions # {}
          /\ last.result.kind = "rejected"
             => last.result.content = <<>> /\ last.result.items = <<>>
    /\ last.op = "exportItems"
       => /\ last.rejected <=> FailingPositions # {}
          /\ {last.written[k].position : k \in 1..Len(last.written)}
                = {k \in PositionsBeforeFailure :
                     Yields(request.items[k]) /\ request.cancel # k}

\* exportItems on the child PDF followed by its parent item, whose EPUB the
\* host fails to deliver: the file of the PDF was written, then the call
\* rejected.
C23_Witness ==
    /\ last.op = "exportItems"
    /\ request.items = <<3, 1, 8>>
    /\ request.rej = 4
    /\ request.cancel = 0
    /\ last.rejected
    /\ Len(last.written) = 1
    /\ last.written[1].position = 1


(***************************************************************************)
(* The HTTP API.                                                           *)
(***************************************************************************)
\* The handler of the last request has run.
Answered == last.op = "init"

\* The responses of the last request.
Responses == IF Answered THEN last.responses ELSE <<>>

\* A response that reports a failure: by its status or by its body.
ReportsFailure(r) ==
    \/ r.status # 200
    \/ "success" \in r.body.fields /\ ~r.body.success

\* C24: on every /export-org/* endpoint a response that reports a failure
\* is JSON with success false and an error, and has status 400, 404 or 500,
\* never 200; and the body of every other response has the success flag.
C24_FailuresCarryErrorStatus ==
    \A i \in 1..Len(Responses) :
        /\ ReportsFailure(Responses[i]) =>
              /\ Responses[i].status \in {400, 404, 500}
              /\ {"success", "error"} \subseteq Responses[i].body.fields
              /\ ~Responses[i].body.success
        /\ ~ReportsFailure(Responses[i]) => "success" \in Responses[i].body.fields


\* The last request was a single-key request to /export-org/citekey.
SingleKeyAnswered ==
    /\ Answered
    /\ last.endpoint = "citekey"
    /\ Len(ParsedCitekeys(request.data)) = 0
    /\ Len(last.responses) = 1

\* The item the requested key resolves to.
RequestedItem ==
    findItemByCitekey(meta, ParsedCitekey(request.data), ParsedLibraryID(request.data),
                      request.bbt, request.searchThrows)

\* The format the claims expect: the body's when it is "org" or "md".
ExpectedFormat ==
    IF request.data.isObject /\ request.data.format = "org" THEN "org"
    ELSE IF request.data.isObject /\ request.data.format = "md" THEN "md"
    ELSE "md"

\* The 200 response to a single key, but for its title.
SingleSuccess(r, item) ==
    /\ r.status = 200
    /\ r.body.success
    /\ r.body.citekey = ParsedCitekey(request.data)
    /\ r.body.annotationCount = AnnotationTotal(item)
    /\ r.body.format = ExpectedFormat
    /\ r.body.content # <<>>
    /\ {"success", "citekey", "title", "annotationCount", "format", "content"}
          \subseteq r.body.fields
    /\ "org" \in r.body.fields <=> ExpectedFormat = "org"

BatchKeysAnswered ==
    /\ Answered
    /\ last.endpoint = "citekey"
    /\ Len(ParsedCitekeys(request.data)) > 0
    /\ Len(last.responses) = 1

\* The item a key of the batch resolves to.
ItemOfKey(key) ==
    findItemByCitekey(meta, key, ParsedLibraryID(request.data), request.bbt,
                      request.searchThrows)

\* The string keys of the request in request order: those that resolve,
\* those that resolve to an item with annotations, those that do not resolve.
ResolvingKeys == SelectSeq(ParsedCitekeys(request.data), LAMBDA k : ItemOfKey(k) # NoItem)

YieldingKeys == SelectSeq(ResolvingKeys, LAMBDA k : Yields(ItemOfKey(k)))

MissingKeys == SelectSeq(ParsedCitekeys(request.data), LAMBDA k : ItemOfKey(k) = NoItem)

\* A fetch rejects while the content of some resolved item is generated.
BatchFetchRejects == \E i \in 1..Len(ResolvingKeys) : Fetches(ItemOfKey(ResolvingKeys[i]))

\* C26: a batch request whose fetches all succeed is answered 404 when no
\* key resolves or no resolved item has annotations; otherwise 200 with
\* success true, one entry of items per resolved key whose item has
\* annotations, in request order, each carrying that very key, and with
\* the keys that did not resolve, in request order, reported in error.
C26_BatchEntriesCarryResolvedKeys ==
    BatchKeysAnswered /\ ~BatchFetchRejects =>
        IF YieldingKeys = <<>> THEN last.responses[1].status = 404
        ELSE /\ last.responses[1].status = 200
             /\ last.responses[1].body.success
             /\ Len(last.responses[1].body.items) = Len(YieldingKeys)
             /\ \A j \in 1..Len(YieldingKeys) :
                   last.responses[1].body.items[j].citekey = YieldingKeys[j]
             /\ last.responses[1].body.notFound = MissingKeys
             /\ "error" \in last.responses[1].body.fields <=> MissingKeys # <<>>

\* A batch of a key without item, the key of an item without annotations
\* and the key of item 1: the one entry carries the third key.
C26_Witness ==
    /\ BatchKeysAnswered
    /\ request.data.keys = << <<"z", "z">>, <<"a", "b", "c">>, <<"a", "b">> >>
    /\ request.bbt = "itemKey"
    /\ last.responses[1].status = 200
    /\ Len(last.responses[1].body.items) = 1
    /\ last.responses[1].body.items[1].citekey = <<"a", "b">>
    /\ last.responses[1].body.notFound = << <<"z", "z">> >>


\* C27: one call of init of any of the nine registered handlers, for any
\* request body and any outcome of the host calls and lookups behind it,
\* calls sendResponseCallback exactly once.
C27_OneResponsePerRequest == Answered => Len(last.responses) = 1

\* selectCollection threw after the collection was found: the request is
\* answered once, with 500.
C27_Witness ==
    /\ Answered
    /\ last.endpoint = "collection/select"
    /\ request.throwAt = 3
    /\ last.effects = <<"selectCollection">>
    /\ Len(last.responses) = 1
    /\ last.responses[1].status = 500


\* What the Better BibTeX lookup gives for the requested key.
RequestedByBbt ==
    BbtLookup(ParsedCitekey(request.data), ParsedLibraryID(request.data), request.bbt)

\* The value of the item's "Citation Key:" entry is the citekey.
CitationKeyIs(item, citekey) ==
    /\ ~meta[item].extra.throws
    /\ TrimmedCapture(CitekeyMatch(meta[item].extra.value)) = citekey

\* C28: findItemByCitekey returns the item of the Better BibTeX lookup when
\* there is one; when there is none (the call was rejected or not OK, the
\* result empty or without item key, the item not fetchable) the item it
\* returns from the Extra-field search is a regular item whose
\* "Citation Key:" value equals the requested citekey exactly; and the
\* request is answered "item not found" exactly when it returns null.
C28_FallbackMatchesCitationKeyExactly ==
    SingleKeyAnswered /\ Truthy(ParsedCitekey(request.data)) =>
        /\ RequestedByBbt # NoItem => RequestedItem = RequestedByBbt
        /\ RequestedByBbt = NoItem /\ RequestedItem # NoItem =>
              /\ isRegularItem(RequestedItem)
              /\ CitationKeyIs(RequestedItem, ParsedCitekey(request.data))
        /\ last.responses[1].body.error = "item-not-found" <=> RequestedItem = NoItem


\* The last request, to collection/select or collection/create, was
\* answered 400 or 404.
SelectionOrCreationRefused ==
    /\ Answered
    /\ last.endpoint \in {"collection/select", "collection/create"}
    /\ \E i \in 1..Len(last.responses) : last.responses[i].status \in {400, 404}

\* C29: a request to collection/select or collection/create that is
\* answered 400 or 404 (libraryID missing, name missing or empty, collection
\* not found) has called none of selectLibrary, selectCollection and saveTx.
C29_RefusedRequestsChangeNothing == SelectionOrCreationRefused => last.effects = <<>>

\* collection/select for a collection the library does not hold, answered
\* 404 with nothing selected.
C29_Witness ==
    /\ SelectionOrCreationRefused
    /\ last.endpoint = "collection/select"
    /\ request.data.collectionKey = <<"C9">>
    /\ last.responses[1].status = 404
    /\ last.effects = <<>>


\* The last request was to collections/list and was answered with the tree.
TreeAnswered ==
    /\ Answered
    /\ last.endpoint = "collections/list"
    /\ Len(last.responses) = 1
    /\ last.responses[1].status = 200

\* How many nodes of the tree have the key.
RECURSIVE Occurrences(_, _)
Occurrences(tree, key) ==
    SumOver(DOMAIN tree,
            [i \in DOMAIN tree |->
                (IF tree[i].key = key THEN 1 ELSE 0)
                + Occurrences(tree[i].children, key)])

\* Every node of the tree lies below the node its parentKey names, the
\* nodes at the top below parentKey.
RECURSIVE PlacedBelow(_, _)
PlacedBelow(tree, parentKey) ==
    \A i \in DOMAIN tree :
        /\ tree[i].parentKey = parentKey
        /\ PlacedBelow(tree[i].children, tree[i].key)

\* C30: the tree answered by collections/list holds every collection of
\* the library that is not deleted exactly once, at the top when it has no
\* parentKey and otherwise among the children of the node with that key.
C30_TreeHoldsEveryVisibleCollectionOnce ==
    TreeAnswered =>
        /\ \A i \in 1..Len(request.collections) :
              ~request.collections[i].deleted =>
                 Occurrences(last.responses[1].body.tree, request.collections[i].key) = 1
        /\ PlacedBelow(last.responses[1].body.tree, NoParent)

=============================================================================
